---- MODULE Spec2Model ----
(***************************************************************************)
(* Metal detector visualisation: the signal model (DetectorSimulator and   *)
(* MetalTypes), the heat-map grid (HeatMapRenderer), the coverage grid     *)
(* (CoverageRenderer) and the signal quality analyzer (SignalAnalyzer).    *)
(*                                                                         *)
(* Numbers.  JavaScript numbers are modelled in fixed point:               *)
(*   - signal strengths and heat values are integers in units of 1/SCALE   *)
(*     (1e-4), so 5.625 is 56250;                                          *)
(*   - audio frequencies are in units of 1/(100*SCALE) Hz;                 *)
(*   - pixel coordinates and distances are integers.                       *)
(* The inputs of the model (object positions, query points, strengths) are *)
(* chosen so that every distance to an object within detection range is a  *)
(* multiple of 15 px, for which the fourth-power falloff is exact in       *)
(* units of 1e-4.                                                          *)
(***************************************************************************)
EXTENDS Integers, Sequences, FiniteSets, TLC

VARIABLES
    objects,          \* DetectorSimulator.objects
    query,            \* << >> before the first getSignal, then <<x, y>>
    signal,           \* the record returned by the last getSignal
    grid,             \* HeatMapRenderer.grid
    metalTypeGrid,    \* HeatMapRenderer.metalTypeGrid
    enableDecay,      \* SIGNAL.ENABLE_DECAY
    lastOp,           \* history: the last call made and its arguments
    peak,             \* history: per cell, the largest adjusted strength applied since clear()
    faded,            \* history: a decay() with decay enabled ran since the last clear()
    fadeCount,        \* history: consecutive effective decay() calls since the last update()
    heatOps,          \* history: number of heat-map calls made (bounds the exploration)
    heatAccess,       \* history: the cell indices the last update() call indexed
    supplied,         \* history: the largest strength passed to update() since clear()
    coverageGrid,     \* CoverageRenderer.coverageGrid
    now,              \* the wall clock read by Date.now()
    coverageOp,       \* history: the last CoverageRenderer call ("none" before any)
    coverageCall,     \* history: the arguments and the time of the last update() since reset()
    signalHistory,    \* SignalAnalyzer.signalHistory
    currentAnalysis,  \* SignalAnalyzer.currentAnalysis
    targetLocked,     \* SignalAnalyzer.targetLocked
    lastTargetVDI,    \* SignalAnalyzer.lastTargetVDI: << >> for null, else <<vdi>>
    returned,         \* the value returned by the last SignalAnalyzer.update
    submitted,        \* history: the entries made of the samples submitted since reset()
    probe,            \* the last call of a stateless function: name, arguments, result
    positionHistory,  \* TechniqueAnalyzer.positionHistory
    sweepSpeed,       \* TechniqueAnalyzer.sweepSpeed, in hundredths of a pixel per frame
    averageSweepSpeed, \* TechniqueAnalyzer.averageSweepSpeed, in hundredths
    searchPattern,    \* TechniqueAnalyzer.searchPattern
    coveredCells,     \* TechniqueAnalyzer.coveredCells
    lastCell,         \* TechniqueAnalyzer.lastCellX, lastCellY: << >> for null
    heading,          \* the step of the last pointer move of a sweep (<< >> before any)
    turns,            \* the number of changes of heading made by the sweep
    targetsFound,     \* ScoringSystem.targetsFound
    valuableTargetsFound, \* ScoringSystem.valuableTargetsFound
    trashTargetsFound, \* ScoringSystem.trashTargetsFound
    recorded,         \* history: the targets passed to recordTargetFound since reset(),
                      \* in the order of the calls
    sessionOp,        \* history: the last event of the sketch ("none" before any)
    frames,           \* history: the number of frames drawn
    preReset,         \* history: what the state held when the reset key was last pressed
    toneSystem,       \* AudioEngine.toneSystem
    audioEnabled,     \* AudioEngine.enabled (the audio context exists once enabled)
    currentOscillator, \* AudioEngine.currentOscillator: the number of a beep, or null
    currentGain,      \* AudioEngine.currentGain: the number of a beep, or null
    beepInProgress,   \* AudioEngine.beepInProgress
    pendingEnded,     \* the beeps started whose 'ended' event was not dispatched yet
    disconnected,     \* the beeps whose oscillator was disconnected
    beepCount         \* the number of beeps started

vars == <<objects, query, signal, grid, metalTypeGrid, enableDecay, lastOp, peak,
          faded, fadeCount, heatOps, heatAccess, supplied, coverageGrid, now, coverageOp, coverageCall,
          signalHistory,
          currentAnalysis, targetLocked, lastTargetVDI, returned, submitted,
          probe, positionHistory, sweepSpeed, averageSweepSpeed, searchPattern,
          coveredCells, lastCell, heading, turns, targetsFound,
          valuableTargetsFound, trashTargetsFound, recorded, sessionOp, frames,
          preReset, toneSystem, audioEnabled, currentOscillator, currentGain,
          beepInProgress, pendingEnded, disconnected, beepCount>>

detectorVars == <<objects, query, signal>>
heatVars == <<grid, metalTypeGrid, enableDecay, lastOp, peak, faded, fadeCount, heatOps,
              heatAccess, supplied>>
coverageVars == <<coverageGrid, now, coverageOp, coverageCall>>
analyzerVars == <<signalHistory, currentAnalysis, targetLocked, lastTargetVDI, returned,
                  submitted>>

techniqueVars == <<positionHistory, sweepSpeed, averageSweepSpeed, searchPattern,
                   coveredCells, lastCell, heading, turns>>

scoringVars == <<targetsFound, valuableTargetsFound, trashTargetsFound, recorded>>

sessionVars == <<sessionOp, frames, preReset>>

\* the state of the modules outside the four above
beepVars == <<audioEnabled, currentOscillator, currentGain, beepInProgress, pendingEnded,
              disconnected, beepCount>>

audioVars == <<toneSystem, beepVars>>

restVars == <<probe, techniqueVars, scoringVars, sessionVars, audioVars>>

(***************************************************************************)
(* Arithmetic helpers                                                      *)
(***************************************************************************)
SCALE == 100 * 100

Min(a, b) == IF a < b THEN a ELSE b

Max(a, b) == IF a > b THEN a ELSE b

Abs(a) == IF a < 0 THEN -a ELSE a

Null == "null"

RECURSIVE SqrtSearch(_, _, _)
\* the largest r in lo..hi with r*r <= n
SqrtSearch(n, lo, hi) ==
    IF lo >= hi THEN lo
    ELSE LET mid == (lo + hi + 1) \div 2
         IN  IF mid * mid <= n THEN SqrtSearch(n, mid, hi)
             ELSE SqrtSearch(n, lo, mid - 1)

\* Math.sqrt on the integers (exact on perfect squares, floor otherwise)
Sqrt(n) == SqrtSearch(n, 0, 2000)

(***************************************************************************)
(* config.js                                                               *)
(***************************************************************************)
MAX_STRENGTH == 100

MIN_STRENGTH == 0

DETECTION_RANGE == 150

BURIED_OBJECTS ==
    << [x |-> 200, y |-> 150, strength |-> 90, metalType |-> "SILVER", name |-> "Silver Coin"],
       [x |-> 450, y |-> 300, strength |-> 70, metalType |-> "COPPER", name |-> "Copper Pipe"],
       [x |-> 600, y |-> 180, strength |-> 50, metalType |-> "ALUMINUM", name |-> "Aluminum Can"],
       [x |-> 250, y |-> 450, strength |-> 85, metalType |-> "IRON", name |-> "Iron Fragment"],
       [x |-> 650, y |-> 450, strength |-> 40, metalType |-> "COPPER", name |-> "Small Copper Object"] >>

(***************************************************************************)
(* MetalTypes.js                                                           *)
(***************************************************************************)
METAL_TYPES ==
    [ IRON     |-> [shortName |-> "IRON",     vdiRange |-> <<0, 30>>,  phaseRange |-> <<20, 40>>,
                    audioFreqRange |-> <<100, 300>>],
      ALUMINUM |-> [shortName |-> "ALUMINUM", vdiRange |-> <<35, 55>>, phaseRange |-> <<60, 100>>,
                    audioFreqRange |-> <<300, 450>>],
      COPPER   |-> [shortName |-> "COPPER",   vdiRange |-> <<60, 75>>, phaseRange |-> <<120, 150>>,
                    audioFreqRange |-> <<500, 700>>],
      SILVER   |-> [shortName |-> "SILVER",   vdiRange |-> <<80, 99>>, phaseRange |-> <<160, 180>>,
                    audioFreqRange |-> <<750, 900>>] ]

\* METAL_TYPES[name] || METAL_TYPES.IRON
getMetalType(name) ==
    IF name \in DOMAIN METAL_TYPES THEN METAL_TYPES[name] ELSE METAL_TYPES.IRON

\* the keys of METAL_TYPES in the order for..in visits them
TYPE_ORDER == <<"IRON", "ALUMINUM", "COPPER", "SILVER">>

RECURSIVE firstTypeFrom(_, _, _)
\* the loop of getMetalTypeFromVDI / getMetalTypeFromPhase from the i-th key on:
\* the first type whose range (field rangeName) contains value, else IRON
firstTypeFrom(i, value, rangeName) ==
    IF i > Len(TYPE_ORDER) THEN METAL_TYPES.IRON
    ELSE LET metalType == METAL_TYPES[TYPE_ORDER[i]]
         IN  IF value >= metalType[rangeName][1] /\ value <= metalType[rangeName][2]
             THEN metalType
             ELSE firstTypeFrom(i + 1, value, rangeName)

RECURSIVE firstTypeBelow(_, _)
\* the VDI loop with the upper end of each range left out
firstTypeBelow(i, value) ==
    IF i > Len(TYPE_ORDER) THEN METAL_TYPES.IRON
    ELSE LET metalType == METAL_TYPES[TYPE_ORDER[i]]
         IN  IF value >= metalType.vdiRange[1] /\ value < metalType.vdiRange[2]
             THEN metalType
             ELSE firstTypeBelow(i + 1, value)

getMetalTypeFromVDI_exclusive(vdi) == firstTypeBelow(1, vdi)

\* getMetalTypeFromVDI(vdi)
getMetalTypeFromVDI(vdi) == firstTypeFrom(1, vdi, "vdiRange")

\* getMetalTypeFromPhase(phase)
getMetalTypeFromPhase(phase) == firstTypeFrom(1, phase, "phaseRange")

\* Math.random() is rnd/RANDOM_DEN for an integer rnd of 0 .. RANDOM_DEN - 1
RANDOM_DEN == 100

\* calculateVDI with the range one too wide: Math.random() * (max - min + 2)
calculateVDI_tooWide(metalType, rnd) ==
    LET min == metalType.vdiRange[1]
        max == metalType.vdiRange[2]
    IN  (rnd * (max - min + 2)) \div RANDOM_DEN + min

\* Math.floor(Math.random() * (max - min + 1)) + min
calculateVDI(metalType, rnd) ==
    LET min == metalType.vdiRange[1]
        max == metalType.vdiRange[2]
    IN  (rnd * (max - min + 1)) \div RANDOM_DEN + min

calculatePhase(metalType, rnd) ==
    LET min == metalType.phaseRange[1]
        max == metalType.phaseRange[2]
    IN  (rnd * (max - min + 1)) \div RANDOM_DEN + min

\* min + (strength / 100) * (max - min), in units of 1/(100*SCALE) Hz;
\* strength is in units of 1/SCALE
calculateAudioFrequency(metalType, strength) ==
    LET min == metalType.audioFreqRange[1]
        max == metalType.audioFreqRange[2]
    IN  min * 100 * SCALE + strength * (max - min)

(***************************************************************************)
(* DetectorSimulator.js                                                    *)
(***************************************************************************)
Infinity == 2147483647

calculateDistance(x1, y1, x2, y2) ==
    LET dx == x2 - x1
        dy == y2 - y1
    IN  Sqrt(dx * dx + dy * dy)

\* calculateSignalStrength with a quadratic falloff: Math.pow(1 - normalizedDistance, 2)
calculateSignalStrength_quadratic(distance, objectStrength) ==
    IF distance = 0 THEN objectStrength * SCALE
    ELSE IF distance >= DETECTION_RANGE THEN 0
    ELSE LET rem == DETECTION_RANGE - distance
             falloff == (rem * rem * SCALE) \div (DETECTION_RANGE * DETECTION_RANGE)
             strength == objectStrength * falloff
         IN  Max(MIN_STRENGTH * SCALE, Min(MAX_STRENGTH * SCALE, strength))

\* objectStrength * (1 - distance/DETECTION_RANGE)^4 clamped, in units of 1/SCALE
calculateSignalStrength(distance, objectStrength) ==
    IF distance = 0 THEN objectStrength * SCALE
    ELSE IF distance >= DETECTION_RANGE THEN 0
    ELSE LET rem == DETECTION_RANGE - distance
             \* (1 - distance/DETECTION_RANGE)^4 in units of 1/SCALE
             falloff == (rem * rem * rem * rem)
                          \div ((DETECTION_RANGE * DETECTION_RANGE * DETECTION_RANGE
                                   * DETECTION_RANGE) \div SCALE)
             strength == objectStrength * falloff
         IN  Max(MIN_STRENGTH * SCALE, Min(MAX_STRENGTH * SCALE, strength))

\* the loop body selecting the nearest object: if (distance < closestDistance)
ScanStep_nearest(acc, obj, x, y) ==
    LET distance == calculateDistance(x, y, obj.x, obj.y)
    IN  IF distance < DETECTION_RANGE
        THEN LET strength == calculateSignalStrength(distance, obj.strength)
             IN  IF distance < acc.closestDistance
                 THEN [maxStrength |-> strength, closestObject |-> <<obj>>,
                       closestDistance |-> distance]
                 ELSE acc
        ELSE acc

\* one iteration of the loop of getSignal over objs[i]
ScanStep(acc, obj, x, y) ==
    LET distance == calculateDistance(x, y, obj.x, obj.y)
    IN  IF distance < DETECTION_RANGE
        THEN LET strength == calculateSignalStrength(distance, obj.strength)
             IN  IF strength > acc.maxStrength
                 THEN [maxStrength |-> strength, closestObject |-> <<obj>>,
                       closestDistance |-> distance]
                 ELSE acc
        ELSE acc

RECURSIVE ScanObjects(_, _, _, _, _)
\* the loop of getSignal from index i on
ScanObjects(objs, i, acc, x, y) ==
    IF i > Len(objs) THEN acc
    ELSE ScanObjects(objs, i + 1, ScanStep(acc, objs[i], x, y), x, y)

\* the loop of getSignal: maxStrength, closestObject and closestDistance after it
scanResult(objs, x, y) ==
    ScanObjects(objs, 1,
        [maxStrength |-> 0, closestObject |-> << >>, closestDistance |-> Infinity], x, y)

\* the rest of getSignal computing the frequency from the strength alone, whether or
\* not an object was selected: FREQUENCY_MIN + (strength / MAX_STRENGTH) * 800
signalRecord_frequencyAlways(acc, rndVdi, rndPhase) ==
    IF acc.closestObject # << >>
    THEN LET metalType == getMetalType(acc.closestObject[1].metalType)
         IN  [strength |-> acc.maxStrength,
              frequency |-> 100 * 100 * SCALE + acc.maxStrength * 800,
              metalType |-> metalType.shortName,
              vdi |-> calculateVDI(metalType, rndVdi),
              phase |-> calculatePhase(metalType, rndPhase),
              closestObject |-> acc.closestObject,
              distance |-> acc.closestDistance]
    ELSE [strength |-> acc.maxStrength,
          frequency |-> 100 * 100 * SCALE + acc.maxStrength * 800,
          metalType |-> Null, vdi |-> 0, phase |-> 0, closestObject |-> << >>,
          distance |-> acc.closestDistance]

\* the rest of getSignal after the loop: the record returned when the two calls of
\* Math.random() (in calculateVDI, then in calculatePhase) yield rndVdi and rndPhase
signalRecord(acc, rndVdi, rndPhase) ==
    IF acc.closestObject # << >>
    THEN LET metalType == getMetalType(acc.closestObject[1].metalType)
         IN  [strength |-> acc.maxStrength,
              frequency |-> calculateAudioFrequency(metalType, acc.maxStrength),
              metalType |-> metalType.shortName,
              vdi |-> calculateVDI(metalType, rndVdi),
              phase |-> calculatePhase(metalType, rndPhase),
              closestObject |-> acc.closestObject,
              distance |-> acc.closestDistance]
    ELSE [strength |-> acc.maxStrength, frequency |-> 0, metalType |-> Null,
          vdi |-> 0, phase |-> 0, closestObject |-> << >>,
          distance |-> acc.closestDistance]

\* DetectorSimulator.getSignal(x, y) over the object list objs
getSignal(objs, x, y, rndVdi, rndPhase) ==
    signalRecord(scanResult(objs, x, y), rndVdi, rndPhase)

(***************************************************************************)
(* config.js: canvas and grid.  The canvas of the model is smaller than    *)
(* the 800 x 600 canvas of the program; the grid is derived from it as in  *)
(* config.js.                                                              *)
(***************************************************************************)
CANVAS_WIDTH == 80

CANVAS_HEIGHT == 60

GRID_RESOLUTION == 10

GRID_COLS == CANVAS_WIDTH \div 10

GRID_ROWS == CANVAS_HEIGHT \div 10

Cells == (0 .. GRID_COLS - 1) \X (0 .. GRID_ROWS - 1)

DETECTOR_RADIUS == 50

\* SIGNAL.DECAY_RATE = 0.92, in hundredths
DECAY_RATE == 92

(***************************************************************************)
(* HeatMapRenderer.js                                                      *)
(***************************************************************************)
SIGNAL_THRESHOLD == 30

\* Math.exp(-n / (r * r)) in thousandths, rounded to the nearest, for the
\* spread radii r = 2..5 and the squared grid distances n = 0..2*r*r
ExpTable ==
    [ r \in 2 .. 5 |->
        CASE r = 2 -> <<1000, 779, 607, 472, 368, 287, 223, 174, 135>>
          [] r = 3 -> <<1000, 895, 801, 717, 641, 574, 513, 459, 411, 368, 329, 295,
                        264, 236, 211, 189, 169, 151, 135>>
          [] r = 4 -> <<1000, 939, 882, 829, 779, 732, 687, 646, 607, 570, 535, 503,
                        472, 444, 417, 392, 368, 346, 325, 305, 287, 269, 253, 238,
                        223, 210, 197, 185, 174, 163, 153, 144, 135>>
          [] r = 5 -> <<1000, 961, 923, 887, 852, 819, 787, 756, 726, 698, 670, 644,
                        619, 595, 571, 549, 527, 507, 487, 468, 449, 432, 415, 399,
                        383, 368, 353, 340, 326, 313, 301, 289, 278, 267, 257, 247,
                        237, 228, 219, 210, 202, 194, 186, 179, 172, 165, 159, 153,
                        147, 141, 135>> ]

\* Math.exp(-(distance * distance) / (spreadRadius * spreadRadius)), in thousandths
gaussFalloff(distanceSq, spreadRadius) == ExpTable[spreadRadius][distanceSq + 1]

\* Math.ceil(2 + (strength / 100) * 3); strength in units of 1/SCALE
spreadRadiusOf(strength) == 2 + (3 * strength + 100 * SCALE - 1) \div (100 * SCALE)

\* strength * falloff for the cell at offset (dx, dy), in units of 1/SCALE
adjustedStrength(strength, dx, dy) ==
    (strength * gaussFalloff(dx * dx + dy * dy, spreadRadiusOf(strength))) \div 1000

\* the threshold test made against the render threshold MIN_VISIBLE_VALUE = 10
belowThreshold_minVisible(strength) == strength < 10 * SCALE

\* if (strength < SIGNAL_THRESHOLD) return
belowThreshold(strength) == strength < SIGNAL_THRESHOLD * SCALE

\* the bounds check of a grid index pair
\* the bounds check letting the index one past the end through
inGrid_offByOne(gx, gy) == ~(gx < 0 \/ gx > GRID_COLS \/ gy < 0 \/ gy > GRID_ROWS)

\* the bounds check of update(), made on the centre and on every target cell
inGrid(gx, gy) == ~(gx < 0 \/ gx >= GRID_COLS \/ gy < 0 \/ gy >= GRID_ROWS)

\* the targets (centerGridX + dx, centerGridY + dy) the two loops of update() visit
loopTargets(cx, cy, r) == { <<cx + dx, cy + dy>> : dx \in -r .. r, dy \in -r .. r }

\* the cells the loops of update() visit for the centre (cx, cy): offsets within
\* the spread radius, bounds-checked
spreadCells(cx, cy, r) ==
    { t \in loopTargets(cx, cy, r) : inGrid(t[1], t[2]) }

\* the indices [targetX][targetY] at which update(x, y, strength) reads or writes the
\* grids
indexedCells(x, y, strength) ==
    LET centerGridX == x \div GRID_RESOLUTION
        centerGridY == y \div GRID_RESOLUTION
    IN  IF belowThreshold(strength) \/ ~inGrid(centerGridX, centerGridY) THEN {}
        ELSE spreadCells(centerGridX, centerGridY, spreadRadiusOf(strength))

\* a visited cell accumulating the new value: grid[x][y] += adjustedStrength
cellValue_additive(old, adjusted) == old + adjusted

\* the value stored in a visited cell: the maximum of its value and the new one
cellValue(old, adjusted) == IF adjusted > old THEN adjusted ELSE old

\* the tag stored in a visited cell
cellTag(old, oldTag, adjusted, metalType) ==
    IF adjusted > old /\ metalType # Null THEN metalType ELSE oldTag

\* HeatMapRenderer.update: the pair <<grid, metalTypeGrid>> after the call
heatUpdate(g, mg, x, y, strength, metalType) ==
    LET centerGridX == x \div GRID_RESOLUTION
        centerGridY == y \div GRID_RESOLUTION
        r == spreadRadiusOf(strength)
        hit == spreadCells(centerGridX, centerGridY, r)
    IN  IF belowThreshold(strength) THEN <<g, mg>>
        ELSE IF ~inGrid(centerGridX, centerGridY) THEN <<g, mg>>
        ELSE << [c \in Cells |->
                    IF c \in hit
                    THEN cellValue(g[c], adjustedStrength(strength, c[1] - centerGridX,
                                                          c[2] - centerGridY))
                    ELSE g[c]],
                [c \in Cells |->
                    IF c \in hit
                    THEN cellTag(g[c], mg[c],
                                 adjustedStrength(strength, c[1] - centerGridX,
                                                  c[2] - centerGridY), metalType)
                    ELSE mg[c]] >>

\* one cell of decay() without the snap to zero
decayCell_noSnap(v) == (v * DECAY_RATE) \div 100

\* one cell of decay() with the snap at 0.05
decayCell_tenth(v) ==
    LET d == (v * DECAY_RATE) \div 100
    IN  IF d < SCALE \div 20 THEN 0 ELSE d

\* one cell of decay(): multiply by DECAY_RATE, snap values below 0.5 to zero
decayCell(v) ==
    LET d == (v * DECAY_RATE) \div 100
    IN  IF d < SCALE \div 2 THEN 0 ELSE d

\* decay() without the SIGNAL.ENABLE_DECAY check
heatDecay_always(g, enabled) == [c \in Cells |-> decayCell(g[c])]

\* HeatMapRenderer.decay: the grid after the call
heatDecay(g, enabled) ==
    IF ~enabled THEN g ELSE [c \in Cells |-> decayCell(g[c])]

\* HeatMapRenderer.clear
clearedGrid == [c \in Cells |-> 0]

clearedTags == [c \in Cells |-> Null]

\* HeatMapRenderer.getMaxValue
RECURSIVE maxOver(_, _)
maxOver(g, cs) ==
    IF cs = {} THEN 0
    ELSE LET c == CHOOSE e \in cs : TRUE
         IN  Max(g[c], maxOver(g, cs \ {c}))

getMaxValue(g) == maxOver(g, Cells)

(***************************************************************************)
(* CoverageRenderer.js                                                     *)
(***************************************************************************)
\* update marking every cell of the clamped bounding box
coverageHit_box(x, y, radius) ==
    (Max(0, (x - radius) \div GRID_RESOLUTION)
        .. Min(GRID_COLS - 1, (x + radius) \div GRID_RESOLUTION))
    \X (Max(0, (y - radius) \div GRID_RESOLUTION)
        .. Min(GRID_ROWS - 1, (y + radius) \div GRID_RESOLUTION))

\* the cells update(x, y, radius) marks: inside the clamped bounding box, with the
\* centre ((i + 0.5) * cellSize, (j + 0.5) * cellSize) at distance <= radius.
\* The comparison is made on doubled coordinates, squared.
coverageHit(x, y, radius) ==
    LET minCol == Max(0, (x - radius) \div GRID_RESOLUTION)
        maxCol == Min(GRID_COLS - 1, (x + radius) \div GRID_RESOLUTION)
        minRow == Max(0, (y - radius) \div GRID_RESOLUTION)
        maxRow == Min(GRID_ROWS - 1, (y + radius) \div GRID_RESOLUTION)
    IN  { c \in (minCol .. maxCol) \X (minRow .. maxRow) :
            LET dx2 == (2 * c[1] + 1) * GRID_RESOLUTION - 2 * x
                dy2 == (2 * c[2] + 1) * GRID_RESOLUTION - 2 * y
            IN  dx2 * dx2 + dy2 * dy2 <= 4 * radius * radius }

\* CoverageRenderer.update: the grid after the call at time currentTime
coverageUpdate(cg, x, y, radius, currentTime) ==
    LET hit == coverageHit(x, y, radius)
    IN  [c \in DOMAIN cg |-> IF c \in hit THEN currentTime ELSE cg[c]]

\* CoverageRenderer.reset
coverageReset(cg) == [c \in DOMAIN cg |-> 0]

\* CoverageRenderer.getSearchedCells
getSearchedCells(cg) == Cardinality({c \in Cells : cg[c] > 0})

\* the percentage taken over the columns instead of over all cells
getCoveragePercentage_perColumn(cg) == (getSearchedCells(cg) * 100 * SCALE) \div GRID_COLS

\* CoverageRenderer.getCoveragePercentage, in units of 1/SCALE percent
getCoveragePercentage(cg) ==
    LET searchedCells == getSearchedCells(cg)
        totalCells == GRID_COLS * GRID_ROWS
    IN  (searchedCells * 100 * SCALE) \div totalCells

\* CoverageRenderer.isSearched
isSearched(cg, x, y) ==
    LET col == x \div GRID_RESOLUTION
        row == y \div GRID_RESOLUTION
    IN  IF col >= 0 /\ col < GRID_COLS /\ row >= 0 /\ row < GRID_ROWS
        THEN cg[<<col, row>>] > 0
        ELSE FALSE

(***************************************************************************)
(* SignalAnalyzer.js.  Stability, repeatability, confidence and the locked *)
(* VDI are integers (Math.round); the averages are kept as exact           *)
(* fractions and every comparison is made by cross-multiplication.         *)
(***************************************************************************)
maxHistoryLength == 30

MIN_SAMPLES == 5

initialAnalysis ==
    [stability |-> 0, quality |-> "UNKNOWN", repeatability |-> 0, confidence |-> 0]

RECURSIVE SumOf(_, _)
\* the sum of field f over the entries of h
SumOf(h, f) == IF h = << >> THEN 0 ELSE Head(h)[f] + SumOf(Tail(h), f)

RECURSIVE SumSqVdi(_)
SumSqVdi(h) == IF h = << >> THEN 0 ELSE Head(h).vdi * Head(h).vdi + SumSqVdi(Tail(h))

\* a full window that refuses the new entry instead of dropping the oldest
addToHistory_dropNewest(h, sig, timestamp) ==
    IF Len(h) >= maxHistoryLength THEN h
    ELSE Append(h, [timestamp |-> timestamp, strength |-> sig.strength,
                    vdi |-> sig.vdi, phase |-> sig.phase,
                    metalType |-> sig.metalType, distance |-> sig.distance])

\* addToHistory: push, then shift when longer than maxHistoryLength
addToHistory(h, sig, timestamp) ==
    LET historyEntry == [timestamp |-> timestamp, strength |-> sig.strength,
                         vdi |-> sig.vdi, phase |-> sig.phase,
                         metalType |-> sig.metalType, distance |-> sig.distance]
        pushed == Append(h, historyEntry)
    IN  IF Len(pushed) > maxHistoryLength THEN Tail(pushed) ELSE pushed

signalPresentEntry(entry) == entry.strength > 10 * SCALE

positiveEntry(entry) == entry.strength > 0

\* calculateStability: round(max(0, min(100, 100 - stdDev * 5))) over the VDI of the
\* entries with strength > 10.  With m readings, sum s and sum of squares q,
\* stdDev * 5 = 5 * sqrt(m*q - s*s) / m, and the result is the largest k in 0..100
\* with 100 - stdDev*5 >= k - 0.5, that is 100*(m*q - s*s) <= m*m*(201 - 2k)^2.
calculateStability(h) ==
    IF Len(h) < 5 THEN 0
    ELSE LET readings == SelectSeq(h, signalPresentEntry)
             m == Len(readings)
             s == SumOf(readings, "vdi")
             q == SumSqVdi(readings)
             dev == m * q - s * s
             ks == { k \in 1 .. 100 :
                       100 * dev <= m * m * (201 - 2 * k) * (201 - 2 * k) }
         IN  IF m < 3 THEN 0
             ELSE IF ks = {} THEN 0
             ELSE CHOOSE k \in ks : \A j \in ks : j <= k

\* calculateRepeatability taking a ratio of exactly 0.7 or 0.3 as consistent
calculateRepeatability_inclusive(h) ==
    IF Len(h) < 10 THEN 0
    ELSE LET n == Len(h)
             signalPresent == Len(SelectSeq(h, signalPresentEntry))
         IN  IF 10 * signalPresent >= 7 * n \/ 10 * signalPresent <= 3 * n
             THEN 80 + (40 * Abs(2 * signalPresent - n) + n) \div (2 * n)
             ELSE 40

\* calculateRepeatability: with p = present/n, round(80 + |p - 0.5| * 40) when
\* p > 0.7 or p < 0.3, else 40
calculateRepeatability(h) ==
    IF Len(h) < 10 THEN 0
    ELSE LET n == Len(h)
             signalPresent == Len(SelectSeq(h, signalPresentEntry))
         IN  IF 10 * signalPresent > 7 * n \/ 10 * signalPresent < 3 * n
             THEN 80 + (40 * Abs(2 * signalPresent - n) + n) \div (2 * n)
             ELSE 40

\* getAverageStrength as the fraction num/den (den = 1 when there is no reading),
\* num in units of 1/SCALE
getAverageStrength(h) ==
    LET validReadings == SelectSeq(h, positiveEntry)
    IN  IF Len(validReadings) = 0 THEN [num |-> 0, den |-> 1]
        ELSE [num |-> SumOf(validReadings, "strength"), den |-> Len(validReadings)]

\* avgStrength > limit
avgAbove(avg, limit) == avg.num > limit * avg.den * SCALE

\* a confidence made of the stability alone
calculateConfidence_stabilityOnly(stability, repeatability, avg) == stability

\* calculateConfidence: round(0.4*stability + 0.3*repeatability
\*                            + 0.3*min(100, avgStrength*1.2))
calculateConfidence(stability, repeatability, avg) ==
    LET capped == 12 * avg.num >= 1000 * avg.den * SCALE
        \* floor(3 * strengthWeight)
        w3 == IF capped THEN 300 ELSE (18 * avg.num) \div (5 * avg.den * SCALE)
    IN  (4 * stability + 3 * repeatability + w3 + 5) \div 10

\* the ladder with the GOOD rung tested before the EXCELLENT one
determineQuality_goodFirst(confidence, stability, avg) ==
    IF confidence > 60 /\ stability > 60 THEN "GOOD"
    ELSE IF confidence > 80 /\ stability > 75 /\ avgAbove(avg, 60) THEN "EXCELLENT"
    ELSE IF confidence > 40 /\ stability > 40 THEN "FAIR"
    ELSE IF confidence > 20 \/ stability > 20 THEN "POOR"
    ELSE "JUNK"

\* SignalAnalyzer.determineQuality, on the confidence and stability of the current
\* analysis and the average strength
determineQuality(confidence, stability, avg) ==
    IF confidence > 80 /\ stability > 75 /\ avgAbove(avg, 60) THEN "EXCELLENT"
    ELSE IF confidence > 60 /\ stability > 60 THEN "GOOD"
    ELSE IF confidence > 40 /\ stability > 40 THEN "FAIR"
    ELSE IF confidence > 20 \/ stability > 20 THEN "POOR"
    ELSE "JUNK"

\* a lock whose VDI is computed again on every update that keeps it
checkTargetLock_refresh(h, stability, avg, locked, lockedVDI) ==
    IF stability > 70 /\ avgAbove(avg, 40)
    THEN <<TRUE, IF Len(h) > 0
                 THEN <<(2 * SumOf(h, "vdi") + Len(h)) \div (2 * Len(h))>>
                 ELSE lockedVDI>>
    ELSE <<FALSE, << >> >>

\* a lock that, once acquired, survives a failing condition
checkTargetLock_sticky(h, stability, avg, locked, lockedVDI) ==
    IF locked THEN <<locked, lockedVDI>>
    ELSE IF stability > 70 /\ avgAbove(avg, 40)
    THEN <<TRUE, <<(2 * SumOf(h, "vdi") + Len(h)) \div (2 * Len(h))>> >>
    ELSE <<FALSE, << >> >>

\* checkTargetLock: the pair <<targetLocked, lastTargetVDI>> after the call
checkTargetLock(h, stability, avg, locked, lockedVDI) ==
    IF stability > 70 /\ avgAbove(avg, 40)
    THEN IF ~locked
         THEN <<TRUE, IF Len(h) > 0
                      THEN <<(2 * SumOf(h, "vdi") + Len(h)) \div (2 * Len(h))>>
                      ELSE lockedVDI>>
         ELSE <<locked, lockedVDI>>
    ELSE <<FALSE, << >> >>

\* analyzeSignal: the record of the new analysis and the lock state
analyzeSignal(h, locked, lockedVDI) ==
    LET stability == calculateStability(h)
        repeatability == calculateRepeatability(h)
        avg == getAverageStrength(h)
        confidence == calculateConfidence(stability, repeatability, avg)
        quality == determineQuality(confidence, stability, avg)
        lock == checkTargetLock(h, stability, avg, locked, lockedVDI)
    IN  [analysis |-> [stability |-> stability, quality |-> quality,
                       repeatability |-> repeatability, confidence |-> confidence],
         targetLocked |-> lock[1], lastTargetVDI |-> lock[2]]

\* the analysis started one sample early
enoughData_four(h) == Len(h) >= MIN_SAMPLES - 1

\* if (this.signalHistory.length >= 5)
enoughData(h) == Len(h) >= MIN_SAMPLES

(***************************************************************************)
(* Initial state: the state after setup() has constructed the components.  *)
(***************************************************************************)
noCall == [op |-> "none", x |-> 0, y |-> 0, strength |-> 0, metalType |-> Null]

noSignal ==
    [strength |-> 0, frequency |-> 0, metalType |-> Null, vdi |-> 0, phase |-> 0,
     closestObject |-> << >>, distance |-> Infinity]

DetectorInit ==
    /\ objects = BURIED_OBJECTS
    /\ query = << >>
    /\ signal = noSignal

HeatInit ==
    /\ grid = clearedGrid
    /\ metalTypeGrid = clearedTags
    /\ enableDecay = FALSE
    /\ lastOp = noCall
    /\ peak = clearedGrid
    /\ faded = FALSE
    /\ fadeCount = 0
    /\ heatOps = 0
    /\ heatAccess = {}
    /\ supplied = 0

\* no update() was called yet
noCoverageCall == [x |-> 0, y |-> 0, radius |-> 0, time |-> 0]

CoverageInit ==
    /\ coverageGrid = [c \in Cells |-> 0]
    /\ now = 1
    /\ coverageOp = "none"
    /\ coverageCall = noCoverageCall

AnalyzerInit ==
    /\ signalHistory = << >>
    /\ currentAnalysis = initialAnalysis
    /\ targetLocked = FALSE
    /\ lastTargetVDI = << >>
    /\ returned = << >>
    /\ submitted = << >>

(***************************************************************************)
(* TechniqueAnalyzer                                                       *)
(***************************************************************************)
maxPositionHistory == 60

\* analyzeSearchPattern looks at the last 30 positions, once there are 30
PATTERN_WINDOW == 30

\* addPositionToHistory: push, then shift when longer than maxPositionHistory
addPositionToHistory(h, x, y, timestamp) ==
    LET pushed == Append(h, [x |-> x, y |-> y, timestamp |-> timestamp])
    IN  IF Len(pushed) > maxPositionHistory THEN Tail(pushed) ELSE pushed

\* calculateSweepSpeed: the distance between the last two positions, in hundredths of
\* a pixel (rounded down); 0 with fewer than two positions
sweepSpeedOf(h) ==
    IF Len(h) < 2 THEN 0
    ELSE LET current == h[Len(h)]
             previous == h[Len(h) - 1]
             dx == current.x - previous.x
             dy == current.y - previous.y
         IN  SqrtSearch(100 * 100 * (dx * dx + dy * dy), 0, 20000)

\* updateAverageSweepSpeed: alpha * sweepSpeed + (1 - alpha) * average, alpha = 0.1,
\* in hundredths (rounded down); not reached with fewer than two positions
updateAverageSweepSpeed(h, average) ==
    IF Len(h) < 2 THEN average ELSE (sweepSpeedOf(h) + 9 * average) \div 10

RECURSIVE totalMovement(_, _, _)
\* the sums of |dx| and of |dy| over the consecutive positions from index i on, added
\* to acc = <<totalHorizontal, totalVertical>>
totalMovement(positions, i, acc) ==
    IF i > Len(positions) THEN acc
    ELSE totalMovement(positions, i + 1,
                       <<acc[1] + Abs(positions[i].x - positions[i - 1].x),
                         acc[2] + Abs(positions[i].y - positions[i - 1].y)>>)

\* calculateHorizontalMovement as the fraction num/den (0/1 when nothing moved)
calculateHorizontalMovement(positions) ==
    LET t == totalMovement(positions, 2, <<0, 0>>)
    IN  IF Len(positions) < 2 \/ t[1] + t[2] = 0 THEN [num |-> 0, den |-> 1]
        ELSE [num |-> t[1], den |-> t[1] + t[2]]

\* calculateVerticalMovement as the fraction num/den (0/1 when nothing moved)
calculateVerticalMovement(positions) ==
    LET t == totalMovement(positions, 2, <<0, 0>>)
    IN  IF Len(positions) < 2 \/ t[1] + t[2] = 0 THEN [num |-> 0, den |-> 1]
        ELSE [num |-> t[2], den |-> t[1] + t[2]]

\* fraction > tenths/10
fractionAbove(f, tenths) == 10 * f.num > tenths * f.den

\* fraction < tenths/10
fractionBelow(f, tenths) == 10 * f.num < tenths * f.den

\* the three-way test of analyzeSearchPattern on the two movement scores
classifyMovement(horizontalMovement, verticalMovement) ==
    IF fractionAbove(horizontalMovement, 7) \/ fractionAbove(verticalMovement, 7)
    THEN "SYSTEMATIC"
    ELSE IF fractionAbove(horizontalMovement, 4) /\ fractionBelow(verticalMovement, 3)
    THEN "SWEEP"
    ELSE "RANDOM"

\* analyzeSearchPattern: the pattern after the call, h being the history after the push
analyzeSearchPattern(h) ==
    IF Len(h) < PATTERN_WINDOW THEN "STARTING"
    ELSE LET recentPositions == SubSeq(h, Len(h) - PATTERN_WINDOW + 1, Len(h))
         IN  classifyMovement(calculateHorizontalMovement(recentPositions),
                              calculateVerticalMovement(recentPositions))

\* the effect of techniqueAnalyzer.update(x, y).  generateFeedback only rewrites the
\* feedback messages and their time stamp, which nothing here reads.
DoTechniqueUpdate(x, y) ==
    LET h == addPositionToHistory(positionHistory, x, y, now)
        cell == <<x \div 10, y \div 10>>
    IN  /\ positionHistory' = h
        /\ sweepSpeed' = sweepSpeedOf(h)
        /\ averageSweepSpeed' = updateAverageSweepSpeed(h, averageSweepSpeed)
        /\ coveredCells' = coveredCells \cup {cell}
        /\ searchPattern' = analyzeSearchPattern(h)
        /\ lastCell' = IF Len(h) < PATTERN_WINDOW THEN lastCell ELSE <<cell>>

\* the effect of techniqueAnalyzer.reset()
DoTechniqueReset ==
    /\ positionHistory' = << >>
    /\ sweepSpeed' = 0
    /\ averageSweepSpeed' = 0
    /\ searchPattern' = "RANDOM"
    /\ coveredCells' = {}
    /\ lastCell' = << >>

TechniqueInit ==
    /\ positionHistory = << >>
    /\ sweepSpeed = 0
    /\ averageSweepSpeed = 0
    /\ searchPattern = "RANDOM"
    /\ coveredCells = {}
    /\ lastCell = << >>
    /\ heading = << >>
    /\ turns = 0

(***************************************************************************)
(* ScoringSystem (target tracking)                                         *)
(***************************************************************************)
ScoringInit ==
    /\ targetsFound = {}
    /\ valuableTargetsFound = {}
    /\ trashTargetsFound = {}
    /\ recorded = << >>

\* nothing was held when no reset key was pressed yet
nothingHeld == [painted |-> FALSE, covered |-> FALSE, window |-> 0, locked |-> FALSE]

SessionInit ==
    /\ sessionOp = "none"
    /\ frames = 0
    /\ preReset = nothingHeld

\* no stateless function has been called yet
noProbe == [fn |-> "none", args |-> << >>, text |-> "", number |-> 0]

ProbeInit == probe = noProbe

\* AudioEngine constructor: the 3-tone system
AudioInit ==
    /\ toneSystem = 3
    /\ audioEnabled = FALSE
    /\ currentOscillator = << >>
    /\ currentGain = << >>
    /\ beepInProgress = FALSE
    /\ pendingEnded = {}
    /\ disconnected = {}
    /\ beepCount = 0

Init ==
    /\ DetectorInit /\ HeatInit /\ CoverageInit /\ AnalyzerInit
    /\ ProbeInit /\ TechniqueInit /\ ScoringInit /\ SessionInit /\ AudioInit

(***************************************************************************)
(* The signal model: getSignal applied at query points, over object lists  *)
(* built with clearObjects and addObject.                                  *)
(***************************************************************************)
MaxObjects == 2

ObjectPool ==
    { [x |-> 200, y |-> 150, strength |-> 90, metalType |-> "SILVER", name |-> "Silver Coin"],
      [x |-> 245, y |-> 150, strength |-> 10, metalType |-> "IRON", name |-> "Nail"],
      [x |-> 290, y |-> 150, strength |-> 100, metalType |-> "GOLD", name |-> "Ring"],
      [x |-> 245, y |-> 150, strength |-> 0, metalType |-> "ALUMINUM", name |-> "Foil"] }

QueryPoints ==
    { <<200, 150>>, <<245, 150>>, <<275, 150>>, <<350, 150>>, <<245, 210>> }

\* the values of Math.random() the model draws: 0, the middle and the largest
RandomDraws == {0, RANDOM_DEN \div 2, RANDOM_DEN - 1}

\* const signal = detectorSim.getSignal(x, y)
GetSignal ==
    /\ \E q \in QueryPoints, rndVdi \in RandomDraws, rndPhase \in RandomDraws :
         /\ query' = q
         /\ signal' = getSignal(objects, q[1], q[2], rndVdi, rndPhase)
    /\ UNCHANGED <<objects, heatVars, coverageVars, analyzerVars, restVars>>

\* DetectorSimulator.addObject; the last query no longer describes the list
AddObject ==
    /\ Len(objects) < MaxObjects
    /\ \E o \in ObjectPool : objects' = Append(objects, o)
    /\ query' = << >>
    /\ UNCHANGED <<signal, heatVars, coverageVars, analyzerVars, restVars>>

\* DetectorSimulator.clearObjects
ClearObjects ==
    /\ objects' = << >>
    /\ query' = << >>
    /\ UNCHANGED <<signal, heatVars, coverageVars, analyzerVars, restVars>>

NextSignal == GetSignal \/ AddObject \/ ClearObjects

SpecSignal == Init /\ [][NextSignal]_vars

\* the distance from the last query point to objects[i]
queryDistance(i) == calculateDistance(query[1], query[2], objects[i].x, objects[i].y)

\* the objects within detection range of the last query point
inRange == { i \in 1 .. Len(objects) : queryDistance(i) < DETECTION_RANGE }

\* the strength getSignal computes for objects[i] at the last query point
computedStrength(i) == calculateSignalStrength(queryDistance(i), objects[i].strength)

\* C1: for a single object of base strength b in 0..100, getSignal reports b at
\* distance 0, b*(1 - d/R)^4 for 0 < d < R (here with d a multiple of R/10, so that
\* (1 - d/R) is k tenths and the strength is b*k^4 in units of 1e-4) and 0 for d >= R;
\* no query point farther from the object gets a larger strength; b = 90 gives 90 at
\* d = 0, 5.625 at d = 75 and 0 at d = 150.
C1_Falloff ==
    (query # << >> /\ Len(objects) = 1 /\ objects[1].strength \in 0 .. 100) =>
        LET b == objects[1].strength
            d == queryDistance(1)
            k == (10 * (DETECTION_RANGE - d)) \div DETECTION_RANGE
        IN  /\ d = 0 => signal.strength = b * 10000
            /\ (0 < d /\ d < 150) => signal.strength = b * k * k * k * k
            /\ d >= 150 => signal.strength = 0
            /\ signal.strength >= 0 /\ signal.strength <= 100 * 10000
            /\ \A q \in QueryPoints :
                 calculateDistance(q[1], q[2], objects[1].x, objects[1].y) >= d =>
                     getSignal(objects, q[1], q[2], 0, 0).strength <= signal.strength
            /\ (b = 90 /\ d = 0) => signal.strength = 900000
            /\ (b = 90 /\ d = 75) => signal.strength = 56250
            /\ (b = 90 /\ d = 150) => signal.strength = 0

C1_Witness ==
    /\ query # << >>
    /\ Len(objects) = 1
    /\ objects[1].strength = 90
    /\ queryDistance(1) = 75
    /\ signal.strength = 56250

\* C2: when some in-range object has positive computed strength, the selected object
\* is an in-range object whose computed strength is the maximum over the in-range
\* objects, and that maximum is the returned strength.
C2_WinnerIsStrongest ==
    (query # << >> /\ \E i \in inRange : computedStrength(i) > 0) =>
        /\ signal.closestObject # << >>
        /\ \E i \in inRange :
             /\ objects[i] = signal.closestObject[1]
             /\ computedStrength(i) = signal.strength
        /\ \A i \in inRange : computedStrength(i) <= signal.strength

\* a far strong object has beaten a strictly nearer weak one
C2_Witness ==
    /\ query # << >>
    /\ signal.closestObject # << >>
    /\ \E i \in inRange :
         /\ computedStrength(i) > 0
         /\ queryDistance(i) < signal.distance
         /\ computedStrength(i) < signal.strength

\* C3: with no object within detection range (the empty list included) getSignal
\* returns strength 0, no object, distance +Infinity, no metal type and vdi, phase
\* and frequency 0.
C3_NothingInRange ==
    (query # << >> /\ inRange = {}) =>
        /\ signal.strength = 0
        /\ signal.closestObject = << >>
        /\ signal.distance = Infinity
        /\ signal.metalType = Null
        /\ signal.vdi = 0
        /\ signal.phase = 0
        /\ signal.frequency = 0

C3_Witness ==
    /\ query # << >>
    /\ objects = << >>
    /\ signal.closestObject = << >>

\* the registry entry of the selected object: its own type, IRON when unregistered
selectedType ==
    LET id == signal.closestObject[1].metalType
    IN  IF id \in {"IRON", "ALUMINUM", "COPPER", "SILVER"}
        THEN METAL_TYPES[id] ELSE METAL_TYPES["IRON"]

\* C4: when an object is selected, vdi is an integer of the type's vdiRange, phase
\* an integer of its phaseRange, every pair of the two ranges is a possible outcome
\* of the same query, frequency = lo + (strength/100)*(hi - lo), and an object of
\* unregistered type is treated as IRON.
C4_TypeProperties ==
    (query # << >> /\ signal.closestObject # << >>) =>
        LET t == selectedType
        IN  /\ signal.metalType = t.shortName
            /\ signal.vdi \in Int /\ signal.phase \in Int
            /\ t.vdiRange[1] <= signal.vdi /\ signal.vdi <= t.vdiRange[2]
            /\ t.phaseRange[1] <= signal.phase /\ signal.phase <= t.phaseRange[2]
            /\ \A rv \in 0 .. RANDOM_DEN - 1 :
                 LET r == getSignal(objects, query[1], query[2], rv, rv)
                 IN  /\ t.vdiRange[1] <= r.vdi /\ r.vdi <= t.vdiRange[2]
                     /\ t.phaseRange[1] <= r.phase /\ r.phase <= t.phaseRange[2]
            /\ \A v \in t.vdiRange[1] .. t.vdiRange[2] :
                 \E rv \in 0 .. RANDOM_DEN - 1 : calculateVDI(getMetalType(signal.metalType), rv) = v
            /\ \A p \in t.phaseRange[1] .. t.phaseRange[2] :
                 \E rp \in 0 .. RANDOM_DEN - 1 : calculatePhase(getMetalType(signal.metalType), rp) = p
            /\ \A rv \in RandomDraws, rp \in RandomDraws :
                 getSignal(objects, query[1], query[2], rv, rp) =
                     [signal EXCEPT !.vdi = calculateVDI(t, rv), !.phase = calculatePhase(t, rp)]
            /\ signal.frequency - t.audioFreqRange[1] * 1000000 =
                 signal.strength * (t.audioFreqRange[2] - t.audioFreqRange[1])
            /\ signal.closestObject[1].metalType = "GOLD" => signal.metalType = "IRON"

\* an object of unregistered type selected, with the lowest vdi and the highest phase
C4_Witness ==
    /\ query # << >>
    /\ signal.closestObject # << >>
    /\ signal.closestObject[1].metalType = "GOLD"
    /\ signal.vdi = 0
    /\ signal.phase = 40
    /\ signal.strength > 0

(***************************************************************************)
(* The heat map: update, decay and clear, and the 'M' key that toggles     *)
(* SIGNAL.ENABLE_DECAY.                                                    *)
(***************************************************************************)
MaxHeatOps == 3

\* the number of decay() calls after which a value of at most 100 is zero
FADE_CALLS == 64

\* pointer positions: a corner cell, an inner cell, the right edge and the bottom
\* edge of the canvas
HeatPoints == { <<5, 5>>, <<45, 35>>, <<CANVAS_WIDTH, 35>>, <<45, CANVAS_HEIGHT>> }

\* strengths, in units of 1/SCALE: just below the threshold, 30, 40 and 100
HeatStrengths == { SIGNAL_THRESHOLD * SCALE - 1, 30 * SCALE, 40 * SCALE, 100 * SCALE }

HeatTypes == { Null, "IRON", "SILVER" }

\* history: the adjusted strength the call update(x, y, strength) applies to cell c
\* (0 when the call does not reach the cell)
appliedTo(c, x, y, strength) ==
    LET cx == x \div GRID_RESOLUTION
        cy == y \div GRID_RESOLUTION
        r == spreadRadiusOf(strength)
    IN  IF /\ strength >= SIGNAL_THRESHOLD * SCALE
           /\ <<cx, cy>> \in Cells
           /\ Abs(c[1] - cx) <= r /\ Abs(c[2] - cy) <= r
        THEN adjustedStrength(strength, c[1] - cx, c[2] - cy)
        ELSE 0

\* the effect of heatMapRenderer.update(x, y, strength, metalType)
DoHeatUpdate(x, y, strength, metalType) ==
    LET res == heatUpdate(grid, metalTypeGrid, x, y, strength, metalType)
    IN  /\ grid' = res[1]
        /\ metalTypeGrid' = res[2]
        /\ lastOp' = [op |-> "update", x |-> x, y |-> y, strength |-> strength,
                      metalType |-> metalType]
        /\ peak' = [c \in Cells |-> Max(peak[c], appliedTo(c, x, y, strength))]
        /\ fadeCount' = 0
        /\ heatAccess' = indexedCells(x, y, strength)
        /\ supplied' = Max(supplied, strength)
        /\ UNCHANGED <<enableDecay, faded>>

\* the effect of heatMapRenderer.decay()
DoHeatDecay ==
    /\ grid' = heatDecay(grid, enableDecay)
    /\ lastOp' = [noCall EXCEPT !.op = "decay"]
    /\ faded' = (faded \/ enableDecay)
    /\ fadeCount' = IF enableDecay THEN Min(fadeCount + 1, FADE_CALLS) ELSE fadeCount
    /\ UNCHANGED <<metalTypeGrid, enableDecay, peak, heatAccess, supplied>>

\* the effect of heatMapRenderer.clear()
DoHeatClear ==
    /\ grid' = clearedGrid
    /\ metalTypeGrid' = clearedTags
    /\ lastOp' = [noCall EXCEPT !.op = "clear"]
    /\ peak' = clearedGrid
    /\ faded' = FALSE
    /\ fadeCount' = 0
    /\ supplied' = 0
    /\ UNCHANGED <<enableDecay, heatAccess>>

\* keyPressed 'M': SIGNAL.ENABLE_DECAY = !SIGNAL.ENABLE_DECAY
DoToggleDecay ==
    /\ enableDecay' = ~enableDecay
    /\ lastOp' = [noCall EXCEPT !.op = "toggle"]
    /\ UNCHANGED <<grid, metalTypeGrid, peak, faded, fadeCount, heatAccess, supplied>>

HeatUpdate ==
    /\ heatOps < MaxHeatOps
    /\ \E pt \in HeatPoints, strength \in HeatStrengths, metalType \in HeatTypes :
         DoHeatUpdate(pt[1], pt[2], strength, metalType)
    /\ heatOps' = heatOps + 1
    /\ UNCHANGED <<detectorVars, coverageVars, analyzerVars, restVars>>

HeatDecay ==
    /\ heatOps < MaxHeatOps
    /\ DoHeatDecay
    /\ heatOps' = heatOps + 1
    /\ UNCHANGED <<detectorVars, coverageVars, analyzerVars, restVars>>

HeatClear ==
    /\ heatOps < MaxHeatOps
    /\ DoHeatClear
    /\ heatOps' = heatOps + 1
    /\ UNCHANGED <<detectorVars, coverageVars, analyzerVars, restVars>>

ToggleDecay ==
    /\ heatOps < MaxHeatOps
    /\ DoToggleDecay
    /\ heatOps' = heatOps + 1
    /\ UNCHANGED <<detectorVars, coverageVars, analyzerVars, restVars>>

NextHeat == HeatUpdate \/ HeatDecay \/ HeatClear \/ ToggleDecay

SpecHeat == Init /\ [][NextHeat]_vars

\* the step is a call of update() (heatOps counts the calls)
updateStep == lastOp'.op = "update" /\ heatOps' # heatOps

\* the step is a call of decay()
decayStep == lastOp'.op = "decay" /\ heatOps' # heatOps

\* ceil(2 + s/100*3) for a strength s in units of 1e-4: the least r with
\* r >= 2 + 3*s/1000000
radiusFor(s) == CHOOSE r \in 2 .. 5 :
                    /\ 1000000 * r >= 2000000 + 3 * s
                    /\ \A q \in 2 .. 5 : 1000000 * q >= 2000000 + 3 * s => r <= q

\* strength * exp(-(dx^2 + dy^2)/r^2) in units of 1e-4, exp read from the table
gaussian(s, dx, dy) ==
    (s * ExpTable[radiusFor(s)][dx * dx + dy * dy + 1]) \div 1000

\* C5: update never adds.  After an update of strength >= 30 whose centre cell is in
\* the grid, every grid cell within the spread radius r = ceil(2 + strength/100*3)
\* of the centre holds max(previous value, strength*exp(-d^2/r^2)) and every other
\* cell is unchanged; no cell ever exceeds the largest adjusted strength applied to
\* it since the last clear (40 then 30 at one position leaves the centre at 40).
C5_MaxNotSum ==
    /\ [](\A c \in Cells : grid[c] <= peak[c])
    /\ [][ (updateStep /\ lastOp'.strength >= 300000
              /\ <<lastOp'.x \div 10, lastOp'.y \div 10>> \in Cells) =>
             LET s == lastOp'.strength
                 cx == lastOp'.x \div 10
                 cy == lastOp'.y \div 10
                 r == radiusFor(s)
             IN  \A c \in Cells :
                    IF Abs(c[1] - cx) <= r /\ Abs(c[2] - cy) <= r
                    THEN grid'[c] = Max(grid[c], gaussian(s, c[1] - cx, c[2] - cy))
                    ELSE grid'[c] = grid[c] ]_vars

\* strength 40 and then strength 30 at the same position: the centre cell holds 40
C5_Witness ==
    /\ lastOp.op = "update"
    /\ lastOp.strength = 300000
    /\ lastOp.x = 45 /\ lastOp.y = 35
    /\ grid[<<4, 3>>] = 400000
    /\ peak[<<4, 3>>] = 400000

\* C6: an update with strength < 30 leaves the value grid and the metal-type grid
\* unchanged, whatever the position and metal type.
C6_WeakUpdateIgnored ==
    [][ (updateStep /\ lastOp'.strength < 300000) =>
            (grid' = grid /\ metalTypeGrid' = metalTypeGrid) ]_vars

\* a weak update made on a painted grid, at a painted position, with another type
C6_Witness ==
    /\ lastOp.op = "update"
    /\ lastOp.strength < 300000
    /\ lastOp.x = 5 /\ lastOp.y = 5
    /\ lastOp.metalType = "SILVER"
    /\ grid[<<0, 0>>] = 300000
    /\ metalTypeGrid[<<0, 0>>] = "IRON"

\* C8: a decay() call made while decay is disabled changes no cell; as long as no
\* decay() call ran with decay enabled since the last clear(), update() and decay()
\* never lower a cell and every cell equals the largest adjusted strength applied to
\* it since that clear().
C8_PermanentMaximum ==
    /\ [](~faded => \A c \in Cells : grid[c] = peak[c])
    /\ [][ /\ (decayStep /\ ~enableDecay) =>
                (grid' = grid /\ metalTypeGrid' = metalTypeGrid)
           /\ ((updateStep \/ decayStep) /\ ~faded') =>
                \A c \in Cells : grid'[c] >= grid[c] ]_vars

\* a decay() call with decay disabled on a painted grid
C8_Witness ==
    /\ lastOp.op = "decay"
    /\ ~enableDecay
    /\ ~faded
    /\ grid[<<0, 0>>] = 400000

(***************************************************************************)
(* Fading: decay() called frame after frame between a few updates, with    *)
(* the 'M' key available at any time.                                      *)
(***************************************************************************)
MaxFadeUpdates == 1

FadePoints == { <<5, 5>>, <<45, 35>> }

FadeStrengths == { 30 * SCALE, 100 * SCALE }

FadeUpdate ==
    /\ heatOps < MaxFadeUpdates
    /\ \E pt \in FadePoints, strength \in FadeStrengths :
         DoHeatUpdate(pt[1], pt[2], strength, "IRON")
    /\ heatOps' = heatOps + 1
    /\ UNCHANGED <<detectorVars, coverageVars, analyzerVars, restVars>>

FadeDecay ==
    /\ DoHeatDecay
    /\ UNCHANGED <<heatOps, detectorVars, coverageVars, analyzerVars, restVars>>

FadeClear ==
    /\ DoHeatClear
    /\ UNCHANGED <<heatOps, detectorVars, coverageVars, analyzerVars, restVars>>

FadeToggle ==
    /\ DoToggleDecay
    /\ UNCHANGED <<heatOps, detectorVars, coverageVars, analyzerVars, restVars>>

NextDecay == FadeUpdate \/ FadeDecay \/ FadeClear \/ FadeToggle

SpecDecay == Init /\ [][NextDecay]_vars

\* C7: with decay enabled, a decay() call keeps a cell that is 0 at 0, never raises a
\* cell, and leaves no cell strictly between 0 and 0.5; once FADE_CALLS calls have
\* run with decay enabled and no update in between, every cell is exactly 0, and
\* further calls keep it so.
C7_DecayReachesZero ==
    /\ [](fadeCount >= FADE_CALLS => \A c \in Cells : grid[c] = 0)
    /\ [][ (lastOp'.op = "decay" /\ enableDecay) =>
             \A c \in Cells :
                /\ grid[c] = 0 => grid'[c] = 0
                /\ grid'[c] <= grid[c]
                /\ grid'[c] = 0 \/ 2 * grid'[c] >= SCALE
                /\ grid[c] > 0 => grid'[c] < grid[c] ]_vars

\* a cell painted with 100 has faded to 0 after FADE_CALLS calls of decay()
C7_Witness ==
    /\ lastOp.op = "decay"
    /\ enableDecay
    /\ fadeCount = FADE_CALLS
    /\ peak[<<0, 0>>] = 100 * SCALE
    /\ grid[<<0, 0>>] = 0

(***************************************************************************)
(* The coverage layer: update at the pointer, reset, and the passing of    *)
(* wall-clock time.                                                        *)
(***************************************************************************)
MaxTime == 3

\* pointer positions: the canvas corners, its centre and two inner points
CoveragePoints ==
    { <<0, 0>>, <<CANVAS_WIDTH \div 2, CANVAS_HEIGHT \div 2>>,
      <<CANVAS_WIDTH, CANVAS_HEIGHT>>, <<20, 20>>, <<60, 40>> }

\* the radius sketch passes (DETECTOR.RADIUS) and a smaller one
CoverageRadii == { DETECTOR_RADIUS, 20 }

CoverageUpdate ==
    /\ \E pt \in CoveragePoints, radius \in CoverageRadii :
         /\ coverageGrid' = coverageUpdate(coverageGrid, pt[1], pt[2], radius, now)
         /\ coverageCall' = [x |-> pt[1], y |-> pt[2], radius |-> radius, time |-> now]
    /\ coverageOp' = "update"
    /\ UNCHANGED <<now, detectorVars, heatVars, analyzerVars, restVars>>

CoverageReset ==
    /\ coverageGrid' = coverageReset(coverageGrid)
    /\ coverageOp' = "reset"
    /\ coverageCall' = noCoverageCall
    /\ UNCHANGED <<now, detectorVars, heatVars, analyzerVars, restVars>>

\* time passes between two calls
Tick ==
    /\ now < MaxTime
    /\ now' = now + 1
    /\ UNCHANGED <<coverageGrid, coverageOp, coverageCall, detectorVars, heatVars, analyzerVars, restVars>>

NextCoverage == CoverageUpdate \/ CoverageReset \/ Tick

SpecCoverage == Init /\ [][NextCoverage]_vars

\* C9: getCoveragePercentage() is always within [0, 100]; right after reset() it is
\* exactly 0; when every grid cell is marked it is exactly 100.
C9_PercentageBounds ==
    /\ getCoveragePercentage(coverageGrid) >= 0
    /\ getCoveragePercentage(coverageGrid) <= 100 * SCALE
    /\ coverageOp = "reset" => getCoveragePercentage(coverageGrid) = 0
    /\ (\A c \in Cells : coverageGrid[c] > 0) =>
            getCoveragePercentage(coverageGrid) = 100 * SCALE

\* every cell marked, by updates made at different times
C9_Witness ==
    /\ coverageOp = "update"
    /\ \A c \in Cells : coverageGrid[c] > 0
    /\ \E c, d \in Cells : coverageGrid[c] # coverageGrid[d]
    /\ getCoveragePercentage(coverageGrid) = 100 * SCALE

(***************************************************************************)
(* The signal analyzer fed with samples, and reset.  The timestamp of a    *)
(* history entry is read by no analysis, so the clock stands still here.   *)
(***************************************************************************)
MaxAnalyzerUpdates == 6

\* samples: no signal, a strong silver target, a copper target, a faint iron one
AnalyzerSamples ==
    { noSignal,
      [noSignal EXCEPT !.strength = 90 * SCALE, !.metalType = "SILVER", !.vdi = 90,
                       !.phase = 170, !.distance = 0],
      [noSignal EXCEPT !.strength = 50 * SCALE, !.metalType = "COPPER", !.vdi = 62,
                       !.phase = 130, !.distance = 30],
      [noSignal EXCEPT !.strength = 8 * SCALE, !.metalType = "IRON", !.vdi = 12,
                       !.phase = 25, !.distance = 75] }

\* history: the entry update(sample) submits at time timestamp
entryOf(sample, timestamp) ==
    [timestamp |-> timestamp, strength |-> sample.strength, vdi |-> sample.vdi,
     phase |-> sample.phase, metalType |-> sample.metalType,
     distance |-> sample.distance]

\* the effect of signalAnalyzer.update(sample)
DoAnalyzerUpdate(sample) ==
    LET h == addToHistory(signalHistory, sample, now)
        res == analyzeSignal(h, targetLocked, lastTargetVDI)
    IN  /\ signalHistory' = h
        /\ IF enoughData(h)
           THEN /\ currentAnalysis' = res.analysis
                /\ targetLocked' = res.targetLocked
                /\ lastTargetVDI' = res.lastTargetVDI
           ELSE UNCHANGED <<currentAnalysis, targetLocked, lastTargetVDI>>
        /\ returned' = <<currentAnalysis'>>
        /\ submitted' = Append(submitted, entryOf(sample, now))

\* the effect of signalAnalyzer.reset()
DoAnalyzerReset ==
    /\ signalHistory' = << >>
    /\ targetLocked' = FALSE
    /\ lastTargetVDI' = << >>
    /\ currentAnalysis' = initialAnalysis
    /\ returned' = << >>
    /\ submitted' = << >>

\* SignalAnalyzer.update(signal)
AnalyzerUpdate ==
    /\ Len(signalHistory) < MaxAnalyzerUpdates
    /\ \E sample \in AnalyzerSamples : DoAnalyzerUpdate(sample)
    /\ UNCHANGED <<detectorVars, heatVars, coverageVars, restVars>>

\* SignalAnalyzer.reset()
AnalyzerReset ==
    /\ DoAnalyzerReset
    /\ UNCHANGED <<detectorVars, heatVars, coverageVars, restVars>>

NextAnalyzer == AnalyzerUpdate \/ AnalyzerReset

SpecAnalyzer == Init /\ [][NextAnalyzer]_vars

\* C10: after each of the first four update() calls on a new or reset analyzer the
\* returned analysis has stability 0, repeatability 0, confidence 0 and quality
\* 'UNKNOWN' and targetLocked is false; the fifth call returns a computed analysis,
\* whose quality is no longer 'UNKNOWN'.
C10_InsufficientData ==
    /\ Len(signalHistory) \in 1 .. 4 =>
          /\ returned # << >>
          /\ returned[1].stability = 0
          /\ returned[1].repeatability = 0
          /\ returned[1].confidence = 0
          /\ returned[1].quality = "UNKNOWN"
          /\ ~targetLocked
    /\ Len(signalHistory) = 0 => ~targetLocked
    /\ Len(signalHistory) >= 5 =>
          /\ returned # << >>
          /\ returned[1].quality \in {"EXCELLENT", "GOOD", "FAIR", "POOR", "JUNK"}

\* four strong, identical samples submitted and still nothing computed; the same
\* four followed by a fifth would lock
C10_Witness ==
    /\ Len(signalHistory) = 4
    /\ \A i \in 1 .. 4 : signalHistory[i].strength = 90 * SCALE
    /\ returned = <<initialAnalysis>>
    /\ LET fifth == Append(signalHistory, signalHistory[1])
       IN  analyzeSignal(fifth, FALSE, << >>).targetLocked

\* the entries of the window with a positive strength, by index
positiveIndices == { i \in 1 .. Len(signalHistory) : signalHistory[i].strength > 0 }

RECURSIVE strengthOver(_)
\* the sum of the strengths of the window entries with index in S
strengthOver(S) ==
    IF S = {} THEN 0
    ELSE LET i == CHOOSE j \in S : TRUE
         IN  signalHistory[i].strength + strengthOver(S \ {i})

\* the average strength of the window, taken as getAverageStrength() takes it (over
\* the entries of positive strength, 0 when there is none), is above 40
averageAbove40 ==
    /\ positiveIndices # {}
    /\ strengthOver(positiveIndices) > 40 * SCALE * Cardinality(positiveIndices)

ConfidenceLevels == {0, 20, 21, 40, 41, 60, 61, 80, 81, 100}

StabilityLevels == {0, 20, 21, 40, 41, 60, 61, 75, 76, 100}

\* average strengths in units of 1/SCALE: 0, 60, just above 60, 100
AverageLevels == {0, 60 * SCALE, 60 * SCALE + 1, 100 * SCALE}

DetermineQuality ==
    /\ \E confidence \in ConfidenceLevels, stability \in StabilityLevels,
          avgStrength \in AverageLevels :
         probe' = [fn |-> "determineQuality",
                   args |-> <<confidence, stability, avgStrength>>,
                   text |-> determineQuality(confidence, stability,
                                             [num |-> avgStrength, den |-> 1]),
                   number |-> 0]
    /\ UNCHANGED <<detectorVars, heatVars, coverageVars, analyzerVars, techniqueVars,
                   audioVars, scoringVars, sessionVars>>

NextQuality == DetermineQuality

SpecQuality == Init /\ [][NextQuality]_vars

\* the rungs of the ladder on the arguments of the last determineQuality call
rungExcellent == probe.args[1] > 80 /\ probe.args[2] > 75 /\ probe.args[3] > 60 * SCALE

rungGood == probe.args[1] > 60 /\ probe.args[2] > 60

rungFair == probe.args[1] > 40 /\ probe.args[2] > 40

rungPoor == probe.args[1] > 20 \/ probe.args[2] > 20

\* C12: determineQuality returns the first matching rung in the order EXCELLENT, GOOD,
\* FAIR, POOR, and JUNK when none matches; arguments that meet both the EXCELLENT and
\* the GOOD thresholds give EXCELLENT.
C12_QualityLadder ==
    probe.fn = "determineQuality" =>
        /\ (probe.text = "EXCELLENT") <=> rungExcellent
        /\ (probe.text = "GOOD") <=> (~rungExcellent /\ rungGood)
        /\ (probe.text = "FAIR") <=> (~rungExcellent /\ ~rungGood /\ rungFair)
        /\ (probe.text = "POOR") <=>
              (~rungExcellent /\ ~rungGood /\ ~rungFair /\ rungPoor)
        /\ (probe.text = "JUNK") <=>
              (~rungExcellent /\ ~rungGood /\ ~rungFair /\ ~rungPoor)
        /\ (rungExcellent /\ rungGood) => probe.text = "EXCELLENT"

\* arguments meeting the EXCELLENT and the GOOD thresholds, classified EXCELLENT
C12_Witness ==
    /\ probe.fn = "determineQuality"
    /\ probe.args = <<81, 76, 60 * SCALE + 1>>
    /\ rungGood
    /\ probe.text = "EXCELLENT"

(***************************************************************************)
(* The window of the signal analyzer over long runs: one steady sample     *)
(* submitted again and again while the clock advances, so that entries     *)
(* are told apart by their timestamps.                                     *)
(***************************************************************************)
MaxSubmitted == 32

\* the sample of the long runs: the strong silver target
WindowSample ==
    [noSignal EXCEPT !.strength = 90 * SCALE, !.metalType = "SILVER", !.vdi = 90,
                     !.phase = 170, !.distance = 0]

WindowUpdate ==
    /\ Len(submitted) < MaxSubmitted
    /\ DoAnalyzerUpdate(WindowSample)
    /\ UNCHANGED <<detectorVars, heatVars, coverageVars, restVars>>

WindowReset ==
    /\ DoAnalyzerReset
    /\ UNCHANGED <<detectorVars, heatVars, coverageVars, restVars>>

NextWindow == WindowUpdate \/ WindowReset \/ Tick

SpecWindow == Init /\ [][NextWindow]_vars

\* C13: the window never holds more than 30 entries and always equals, in order, the
\* last min(n, 30) of the n entries submitted since the last reset: a sample added to
\* a full window pushes out exactly the oldest entry.
C13_WindowIsLastThirty ==
    LET n == Len(submitted)
        kept == IF n < 30 THEN n ELSE 30
    IN  /\ Len(signalHistory) <= 30
        /\ Len(signalHistory) = kept
        /\ \A i \in 1 .. kept : signalHistory[i] = submitted[n - kept + i]

\* 32 entries submitted: the two oldest, of time 1, are gone and the window starts
\* with an entry of a later time
C13_Witness ==
    /\ Len(submitted) = 32
    /\ Len(signalHistory) = 30
    /\ submitted[1].timestamp = 1
    /\ submitted[2].timestamp = 1
    /\ signalHistory[1].timestamp = 2
    /\ signalHistory[30].timestamp = 3

(***************************************************************************)
(* The sketch: frames drawn at pointer positions, the reset key and the    *)
(* decay key, with one more object buried near the pointer.  The trail of  *)
(* the detector renderer, the metrics panel and the audio engine keep      *)
(* state of their own that none of the structures below reads.             *)
(***************************************************************************)
MaxFrames == 5

MaxAdded == 1

\* an object within reach of the pointer positions
nearObject ==
    [x |-> 45, y |-> 35, strength |-> 90, metalType |-> "COPPER", name |-> "Pipe"]

\* mouseX, mouseY: over the near object, and left of the canvas
MousePoints == { <<45, 35>>, <<-10, 20>> }

\* the two draws of Math.random() of a frame
SessionDraws == { <<0, 0>>, <<RANDOM_DEN - 1, RANDOM_DEN - 1>> }

\* p5 constrain(v, lo, hi)
constrain(v, lo, hi) == Max(lo, Min(hi, v))

\* mouseX >= 0 && mouseX <= CANVAS.WIDTH && mouseY >= 0 && mouseY <= CANVAS.HEIGHT
overCanvas(mouseX, mouseY) ==
    mouseX >= 0 /\ mouseX <= CANVAS_WIDTH /\ mouseY >= 0 /\ mouseY <= CANVAS_HEIGHT

\* window.draw with the updates made before the query: they take the sample of the
\* frame before
Frame_staleSample ==
    /\ frames < MaxFrames
    /\ \E mouse \in MousePoints, draw \in SessionDraws :
         LET detectorX == constrain(mouse[1], 0, CANVAS_WIDTH)
             detectorY == constrain(mouse[2], 0, CANVAS_HEIGHT)
             over == overCanvas(mouse[1], mouse[2])
         IN  \E sig \in {getSignal(objects, detectorX, detectorY, draw[1], draw[2])} :
             \E painted \in {IF over
                              THEN heatUpdate(grid, metalTypeGrid, detectorX, detectorY,
                                              signal.strength, signal.metalType)
                              ELSE <<grid, metalTypeGrid>>} :
             /\ query' = <<detectorX, detectorY>>
             /\ signal' = sig
             /\ coverageGrid' = IF over
                                THEN coverageUpdate(coverageGrid, detectorX, detectorY,
                                                    DETECTOR_RADIUS, now)
                                ELSE coverageGrid
             /\ coverageOp' = IF over THEN "update" ELSE coverageOp
             /\ coverageCall' = IF over
                                THEN [x |-> detectorX, y |-> detectorY,
                                      radius |-> DETECTOR_RADIUS, time |-> now]
                                ELSE coverageCall
             /\ grid' = heatDecay(painted[1], enableDecay)
             /\ metalTypeGrid' = painted[2]
             /\ lastOp' = [noCall EXCEPT !.op = "decay"]
             /\ peak' = IF over
                        THEN [c \in Cells |->
                                Max(peak[c], appliedTo(c, detectorX, detectorY,
                                                       signal.strength))]
                        ELSE peak
             /\ heatAccess' = IF over
                              THEN indexedCells(detectorX, detectorY, signal.strength)
                              ELSE heatAccess
             /\ supplied' = IF over THEN Max(supplied, signal.strength) ELSE supplied
             /\ faded' = (faded \/ enableDecay)
             /\ fadeCount' = IF enableDecay
                             THEN Min((IF over THEN 0 ELSE fadeCount) + 1, FADE_CALLS)
                             ELSE IF over THEN 0 ELSE fadeCount
             /\ IF over
                THEN /\ DoAnalyzerUpdate(signal)
                     /\ DoTechniqueUpdate(detectorX, detectorY)
                ELSE UNCHANGED <<analyzerVars, positionHistory, sweepSpeed,
                                 averageSweepSpeed, searchPattern, coveredCells,
                                 lastCell>>
    /\ sessionOp' = "frame"
    /\ frames' = frames + 1
    /\ UNCHANGED <<objects, now, enableDecay, heatOps, heading, turns, probe,
                   audioVars, scoringVars, preReset>>

\* window.draw
Frame ==
    /\ frames < MaxFrames
    /\ \E mouse \in MousePoints, draw \in SessionDraws :
         LET detectorX == constrain(mouse[1], 0, CANVAS_WIDTH)
             detectorY == constrain(mouse[2], 0, CANVAS_HEIGHT)
             over == overCanvas(mouse[1], mouse[2])
         IN  \E sig \in {getSignal(objects, detectorX, detectorY, draw[1], draw[2])} :
             \E painted \in {IF over
                              THEN heatUpdate(grid, metalTypeGrid, detectorX, detectorY,
                                              sig.strength, sig.metalType)
                              ELSE <<grid, metalTypeGrid>>} :
             /\ query' = <<detectorX, detectorY>>
             /\ signal' = sig
             /\ coverageGrid' = IF over
                                THEN coverageUpdate(coverageGrid, detectorX, detectorY,
                                                    DETECTOR_RADIUS, now)
                                ELSE coverageGrid
             /\ coverageOp' = IF over THEN "update" ELSE coverageOp
             /\ coverageCall' = IF over
                                THEN [x |-> detectorX, y |-> detectorY,
                                      radius |-> DETECTOR_RADIUS, time |-> now]
                                ELSE coverageCall
             /\ grid' = heatDecay(painted[1], enableDecay)
             /\ metalTypeGrid' = painted[2]
             /\ lastOp' = [noCall EXCEPT !.op = "decay"]
             /\ peak' = IF over
                        THEN [c \in Cells |->
                                Max(peak[c], appliedTo(c, detectorX, detectorY,
                                                       sig.strength))]
                        ELSE peak
             /\ heatAccess' = IF over
                              THEN indexedCells(detectorX, detectorY, sig.strength)
                              ELSE heatAccess
             /\ supplied' = IF over THEN Max(supplied, sig.strength) ELSE supplied
             /\ faded' = (faded \/ enableDecay)
             /\ fadeCount' = IF enableDecay
                             THEN Min((IF over THEN 0 ELSE fadeCount) + 1, FADE_CALLS)
                             ELSE IF over THEN 0 ELSE fadeCount
             /\ IF over
                THEN /\ DoAnalyzerUpdate(sig)
                     /\ DoTechniqueUpdate(detectorX, detectorY)
                ELSE UNCHANGED <<analyzerVars, positionHistory, sweepSpeed,
                                 averageSweepSpeed, searchPattern, coveredCells,
                                 lastCell>>
    /\ sessionOp' = "frame"
    /\ frames' = frames + 1
    /\ UNCHANGED <<objects, now, enableDecay, heatOps, heading, turns, probe,
                   audioVars, scoringVars, preReset>>

\* the reset key of the first sketch: the heat map only
ResetKey_heatOnly ==
    /\ DoHeatClear
    /\ sessionOp' = "reset"
    /\ preReset' = [painted |-> \E c \in Cells : grid[c] > 0,
                    covered |-> \E c \in Cells : coverageGrid[c] > 0,
                    window |-> Len(signalHistory),
                    locked |-> targetLocked]
    /\ UNCHANGED <<detectorVars, coverageVars, analyzerVars, techniqueVars, heatOps,
                   frames, probe, audioVars, scoringVars>>

\* window.keyPressed, key 'R'
ResetKey ==
    /\ DoHeatClear
    /\ coverageGrid' = coverageReset(coverageGrid)
    /\ coverageOp' = "reset"
    /\ coverageCall' = noCoverageCall
    /\ DoAnalyzerReset
    /\ DoTechniqueReset
    /\ sessionOp' = "reset"
    /\ preReset' = [painted |-> \E c \in Cells : grid[c] > 0,
                    covered |-> \E c \in Cells : coverageGrid[c] > 0,
                    window |-> Len(signalHistory),
                    locked |-> targetLocked]
    /\ UNCHANGED <<detectorVars, now, heatOps, heading, turns, frames, probe,
                   audioVars, scoringVars>>

\* window.keyPressed, key 'M'
DecayKey ==
    /\ DoToggleDecay
    /\ sessionOp' = "toggle"
    /\ UNCHANGED <<detectorVars, coverageVars, analyzerVars, techniqueVars, heatOps,
                   frames, preReset, probe, audioVars, scoringVars>>

\* detectorSim.addObject(nearObject)
BuryObject ==
    /\ Len(objects) < Len(BURIED_OBJECTS) + MaxAdded
    /\ objects' = Append(objects, nearObject)
    /\ query' = << >>
    /\ sessionOp' = "bury"
    /\ UNCHANGED <<signal, heatVars, coverageVars, analyzerVars, techniqueVars,
                   frames, preReset, probe, audioVars, scoringVars>>

NextSession == Frame \/ ResetKey \/ DecayKey \/ BuryObject

SpecSession == Init /\ [][NextSession]_vars

\* C14: once the reset key handler has run, and until the next event, every heat cell
\* is 0 with a null metal tag, every coverage cell is 0 and the coverage is 0%, and
\* the analyzer has an empty window, the initial analysis ('UNKNOWN' and zeros), no
\* lock and a null locked VDI: the three structures are cleared together.
C14_ResetClearsAll ==
    sessionOp = "reset" =>
        /\ \A c \in Cells : grid[c] = 0 /\ metalTypeGrid[c] = Null
        /\ \A c \in Cells : coverageGrid[c] = 0
        /\ getCoveragePercentage(coverageGrid) = 0
        /\ signalHistory = << >>
        /\ currentAnalysis.quality = "UNKNOWN"
        /\ currentAnalysis.stability = 0
        /\ currentAnalysis.repeatability = 0
        /\ currentAnalysis.confidence = 0
        /\ ~targetLocked
        /\ lastTargetVDI = << >>

\* the reset key pressed on a painted heat map, a marked coverage grid and a locked
\* analyzer
C14_Witness ==
    /\ sessionOp = "reset"
    /\ preReset.painted
    /\ preReset.covered
    /\ preReset.window >= 5
    /\ preReset.locked
    /\ \A c \in Cells : grid[c] = 0 /\ coverageGrid[c] = 0
    /\ signalHistory = << >>

(***************************************************************************)
(* Classification of a VDI or a phase reading by the metal-type registry.  *)
(***************************************************************************)
MAX_VDI == 99

MAX_PHASE == 180

ClassifyVDI ==
    /\ \E vdi \in 0 .. MAX_VDI :
         probe' = [fn |-> "getMetalTypeFromVDI", args |-> <<vdi>>,
                   text |-> getMetalTypeFromVDI(vdi).shortName, number |-> 0]
    /\ UNCHANGED <<detectorVars, heatVars, coverageVars, analyzerVars, techniqueVars,
                   audioVars, scoringVars, sessionVars>>

ClassifyPhase ==
    /\ \E phase \in 0 .. MAX_PHASE :
         probe' = [fn |-> "getMetalTypeFromPhase", args |-> <<phase>>,
                   text |-> getMetalTypeFromPhase(phase).shortName, number |-> 0]
    /\ UNCHANGED <<detectorVars, heatVars, coverageVars, analyzerVars, techniqueVars,
                   audioVars, scoringVars, sessionVars>>

NextClassify == ClassifyVDI \/ ClassifyPhase

SpecClassify == Init /\ [][NextClassify]_vars

\* the registry types, in order, whose range named rangeName contains v
matchingTypes(v, rangeName) ==
    { i \in 1 .. 4 :
        /\ v >= METAL_TYPES[TYPE_ORDER[i]][rangeName][1]
        /\ v <= METAL_TYPES[TYPE_ORDER[i]][rangeName][2] }

\* name is the first of IRON, ALUMINUM, COPPER, SILVER whose range contains v, and
\* IRON when no range does
firstMatchOrIron(name, v, rangeName) ==
    LET m == matchingTypes(v, rangeName)
    IN  IF m = {} THEN name = "IRON"
        ELSE \E i \in m : name = TYPE_ORDER[i] /\ \A j \in m : i <= j

\* C15: for every VDI 0..99 and every phase 0..180 the classification is the first
\* type in the order IRON, ALUMINUM, COPPER, SILVER whose inclusive range contains
\* the value, and IRON when none does (VDI 31..34, 56..59, 76..79).
C15_FirstMatchingType ==
    /\ probe.fn = "getMetalTypeFromVDI" =>
          /\ firstMatchOrIron(probe.text, probe.args[1], "vdiRange")
          /\ probe.args[1] \in 0 .. 30 => probe.text = "IRON"
          /\ probe.args[1] \in 35 .. 55 => probe.text = "ALUMINUM"
          /\ probe.args[1] \in 60 .. 75 => probe.text = "COPPER"
          /\ probe.args[1] \in 80 .. 99 => probe.text = "SILVER"
          /\ probe.args[1] \in (31 .. 34) \cup (56 .. 59) \cup (76 .. 79) =>
                probe.text = "IRON"
    /\ probe.fn = "getMetalTypeFromPhase" =>
          /\ firstMatchOrIron(probe.text, probe.args[1], "phaseRange")
          /\ probe.args[1] \in 20 .. 40 => probe.text = "IRON"
          /\ probe.args[1] \in 60 .. 100 => probe.text = "ALUMINUM"
          /\ probe.args[1] \in 120 .. 150 => probe.text = "COPPER"
          /\ probe.args[1] \in 160 .. 180 => probe.text = "SILVER"
          /\ probe.args[1] \in (0 .. 19) \cup (41 .. 59) \cup (101 .. 119)
                               \cup (151 .. 159) => probe.text = "IRON"

\* a VDI in the gap between copper and silver, classified as iron
C15_Witness ==
    /\ probe.fn = "getMetalTypeFromVDI"
    /\ probe.args[1] = 77
    /\ matchingTypes(77, "vdiRange") = {}
    /\ probe.text = "IRON"

\* C16: update never indexes a cell outside the grid.  When the centre cell is out of
\* range (the pointer on the right or the bottom edge of the canvas) the call indexes
\* nothing and changes nothing; otherwise, for a strength of 30 or more, it indexes
\* exactly the in-grid cells within the spread radius of the centre, the out-of-grid
\* neighbours being skipped.
C16_IndicesInGrid ==
    /\ [](heatAccess \subseteq (0 .. GRID_COLS - 1) \X (0 .. GRID_ROWS - 1))
    /\ [](DOMAIN grid = Cells /\ DOMAIN metalTypeGrid = Cells)
    /\ [][ updateStep =>
             LET cx == lastOp'.x \div 10
                 cy == lastOp'.y \div 10
             IN  IF cx >= GRID_COLS \/ cy >= GRID_ROWS
                 THEN /\ heatAccess' = {}
                      /\ grid' = grid
                      /\ metalTypeGrid' = metalTypeGrid
                 ELSE lastOp'.strength >= 300000 =>
                        heatAccess' =
                          { c \in Cells :
                              /\ Abs(c[1] - cx) <= radiusFor(lastOp'.strength)
                              /\ Abs(c[2] - cy) <= radiusFor(lastOp'.strength) } ]_vars

\* a strong update on the right edge of a painted map: nothing indexed
C16_Witness ==
    /\ lastOp.op = "update"
    /\ lastOp.x = CANVAS_WIDTH
    /\ lastOp.strength = 100 * SCALE
    /\ heatAccess = {}
    /\ grid[<<GRID_COLS - 1, 3>>] > 0

(***************************************************************************)
(* AudioEngine: the tone of a beep.                                        *)
(***************************************************************************)

\* getFrequencyForVDI(vdi) of an engine whose toneSystem field is tones; in Hz
getFrequencyForVDI(tones, vdi) ==
    IF tones = 3
    THEN IF vdi < 30 THEN 175
         ELSE IF vdi < 60 THEN 450
         ELSE 800
    ELSE IF vdi < 30 THEN 175
         ELSE IF vdi < 50 THEN 400
         ELSE IF vdi < 70 THEN 600
         ELSE 850

\* the values the tone-system selector and other callers may pass
ToneChoices == {3, 4, 5}

\* setToneSystem(tones): only 3 and 4 are taken
SetToneSystem ==
    /\ \E tones \in ToneChoices :
         toneSystem' = IF tones = 3 \/ tones = 4 THEN tones ELSE toneSystem
    /\ UNCHANGED <<detectorVars, heatVars, coverageVars, analyzerVars, techniqueVars,
                   scoringVars, sessionVars, probe, beepVars>>

\* one call of getFrequencyForVDI on an integer VDI
GetFrequencyForVDI ==
    /\ \E vdi \in 0 .. MAX_VDI :
         probe' = [fn |-> "getFrequencyForVDI", args |-> <<toneSystem, vdi>>,
                   text |-> "", number |-> getFrequencyForVDI(toneSystem, vdi)]
    /\ UNCHANGED <<detectorVars, heatVars, coverageVars, analyzerVars, techniqueVars,
                   scoringVars, sessionVars, audioVars>>

NextTone == SetToneSystem \/ GetFrequencyForVDI

SpecTone == Init /\ [][NextTone]_vars

\* the documented bins: VDI range and frequency range in Hz
DocumentedBins ==
    { [vdi |-> 0 .. 30,  hz |-> 100 .. 250],
      [vdi |-> 35 .. 60, hz |-> 300 .. 500],
      [vdi |-> 60 .. 75, hz |-> 500 .. 700],
      [vdi |-> 80 .. 99, hz |-> 700 .. 900] }

\* C17: in the 4-tone system the frequency returned for a VDI lies in a documented
\* bin of that VDI (VDI 60, listed in two bins, may take either).
C17_FourToneBins ==
    (probe.fn = "getFrequencyForVDI" /\ probe.args[1] = 4) =>
        \A bin \in DocumentedBins :
            probe.args[2] \in bin.vdi =>
                \E other \in DocumentedBins :
                    /\ probe.args[2] \in other.vdi
                    /\ probe.number \in other.hz

(***************************************************************************)
(* TechniqueAnalyzer: the pointer moving over the canvas, one update per   *)
(* frame, and reset.  The pointer starts in the top left corner and moves  *)
(* by one of a few steps per frame; heading and turns keep the number of   *)
(* changes of step within MaxTurns.                                        *)
(***************************************************************************)
MaxPositions == 31

MaxTurns == 1

\* the movement of the pointer between two frames: still, right, down, a shallow and
\* a steep diagonal
PointerSteps == { <<0, 0>>, <<1, 0>>, <<0, 1>>, <<2, 1>>, <<1, 2>> }

\* where the pointer is: at the last position pushed, or in the corner
pointerAt ==
    IF positionHistory = << >> THEN <<0, 0>>
    ELSE <<positionHistory[Len(positionHistory)].x,
           positionHistory[Len(positionHistory)].y>>

TechniqueUpdate ==
    /\ Len(positionHistory) < MaxPositions
    /\ \E step \in PointerSteps :
         /\ heading = << >> \/ heading = <<step>> \/ turns < MaxTurns
         /\ pointerAt[1] + step[1] <= CANVAS_WIDTH
         /\ pointerAt[2] + step[2] <= CANVAS_HEIGHT
         /\ DoTechniqueUpdate(pointerAt[1] + step[1], pointerAt[2] + step[2])
         /\ heading' = <<step>>
         /\ turns' = IF heading = << >> \/ heading = <<step>> THEN turns ELSE turns + 1
    /\ UNCHANGED <<detectorVars, heatVars, coverageVars, analyzerVars, probe,
                   scoringVars, sessionVars, audioVars>>

TechniqueReset ==
    /\ positionHistory # << >>
    /\ DoTechniqueReset
    /\ heading' = << >>
    /\ turns' = 0
    /\ UNCHANGED <<detectorVars, heatVars, coverageVars, analyzerVars, probe,
                   scoringVars, sessionVars, audioVars>>

NextTechnique == TechniqueUpdate \/ TechniqueReset

SpecTechnique == Init /\ [][NextTechnique]_vars

\* the sums of |dx| and of |dy| a window of 30 positions on the canvas can have
HorizontalTotals == 0 .. (PATTERN_WINDOW - 1) * CANVAS_WIDTH

VerticalTotals == 0 .. (PATTERN_WINDOW - 1) * CANVAS_HEIGHT

\* the pattern analyzeSearchPattern sets for a window with these two sums
patternOfTotals(totalHorizontal, totalVertical) ==
    LET totalMoved == totalHorizontal + totalVertical
    IN  IF totalMoved = 0
        THEN classifyMovement([num |-> 0, den |-> 1], [num |-> 0, den |-> 1])
        ELSE classifyMovement([num |-> totalHorizontal, den |-> totalMoved],
                              [num |-> totalVertical, den |-> totalMoved])

\* C18: once 30 positions are recorded and the pattern is analyzed, each of
\* SYSTEMATIC, SWEEP and RANDOM is the pattern of some window of 30 positions, that is,
\* of some pair of movement sums such a window can have.
C18_EachPatternReachable ==
    Len(positionHistory) >= PATTERN_WINDOW =>
        \A pattern \in {"SYSTEMATIC", "SWEEP", "RANDOM"} :
            \E totalHorizontal \in HorizontalTotals, totalVertical \in VerticalTotals :
                patternOfTotals(totalHorizontal, totalVertical) = pattern

\* what the updates of the pointer show instead: SWEEP is never set, and the window's
\* pattern is the pattern of its two movement sums
SweepNeverSet ==
    /\ searchPattern # "SWEEP"
    /\ Len(positionHistory) >= PATTERN_WINDOW =>
         LET recent == SubSeq(positionHistory, Len(positionHistory) - PATTERN_WINDOW + 1,
                              Len(positionHistory))
             t == totalMovement(recent, 2, <<0, 0>>)
         IN  /\ t[1] \in HorizontalTotals
             /\ t[2] \in VerticalTotals
             /\ searchPattern = patternOfTotals(t[1], t[2])

\* both other patterns are set by some 30 updates
SystematicSet == searchPattern = "SYSTEMATIC" /\ Len(positionHistory) >= PATTERN_WINDOW

RandomSet == searchPattern = "RANDOM" /\ Len(positionHistory) >= PATTERN_WINDOW

(***************************************************************************)
(* ScoringSystem: recording the targets found, and reset.                  *)
(***************************************************************************)
MaxRecorded == 4

\* the targets passed to recordTargetFound: two nails and two rings whose names and
\* coordinates share digits, and an object at the place and under the name of the
\* first nail but of another metal
ScoringTargets ==
    { [name |-> "Nail",   x |-> 12, y |-> 3,  metalType |-> "IRON"],
      [name |-> "Nail",   x |-> 1,  y |-> 23, metalType |-> "IRON"],
      [name |-> "Ring_1", x |-> 2,  y |-> 3,  metalType |-> "SILVER"],
      [name |-> "Ring",   x |-> 1,  y |-> 2,  metalType |-> "SILVER"],
      [name |-> "Pipe",   x |-> 45, y |-> 35, metalType |-> "COPPER"],
      [name |-> "Nail",   x |-> 12, y |-> 3,  metalType |-> "COPPER"] }

\* `${target.name}_${target.x}_${target.y}`
targetKey(target) ==
    target.name \o "_" \o ToString(target.x) \o "_" \o ToString(target.y)

\* recordTargetFound adding the key to the sets whether or not it is in targetsFound
recordTargetFound_noCheck(found, target) ==
    LET key == targetKey(target)
    IN  [targetsFound |-> found.targetsFound \cup {key},
         trashTargetsFound |->
             IF target.metalType = "IRON" THEN found.trashTargetsFound \cup {key}
             ELSE found.trashTargetsFound,
         valuableTargetsFound |->
             IF target.metalType = "IRON" THEN found.valuableTargetsFound
             ELSE found.valuableTargetsFound \cup {key}]

\* recordTargetFound(target, signalConfidence) on the three sets; signalConfidence is
\* not read
recordTargetFound(found, target) ==
    LET key == targetKey(target)
    IN  IF key \in found.targetsFound THEN found
        ELSE [targetsFound |-> found.targetsFound \cup {key},
              trashTargetsFound |->
                  IF target.metalType = "IRON" THEN found.trashTargetsFound \cup {key}
                  ELSE found.trashTargetsFound,
              valuableTargetsFound |->
                  IF target.metalType = "IRON" THEN found.valuableTargetsFound
                  ELSE found.valuableTargetsFound \cup {key}]

RecordTargetFound ==
    /\ Len(recorded) < MaxRecorded
    /\ \E target \in ScoringTargets :
         \E after \in { recordTargetFound(
                          [targetsFound |-> targetsFound,
                           trashTargetsFound |-> trashTargetsFound,
                           valuableTargetsFound |-> valuableTargetsFound], target) } :
            /\ targetsFound' = after.targetsFound
            /\ trashTargetsFound' = after.trashTargetsFound
            /\ valuableTargetsFound' = after.valuableTargetsFound
            /\ recorded' = Append(recorded, target)
    /\ UNCHANGED <<detectorVars, heatVars, coverageVars, analyzerVars, probe,
                   techniqueVars, sessionVars, audioVars>>

\* ScoringSystem.reset(): three new sets
ScoringReset ==
    /\ recorded # << >>
    /\ targetsFound' = {}
    /\ trashTargetsFound' = {}
    /\ valuableTargetsFound' = {}
    /\ recorded' = << >>
    /\ UNCHANGED <<detectorVars, heatVars, coverageVars, analyzerVars, probe,
                   techniqueVars, sessionVars, audioVars>>

NextScoring == RecordTargetFound \/ ScoringReset

SpecScoring == Init /\ [][NextScoring]_vars

\* what identifies a target
identityOf(target) == <<target.name, target.x, target.y>>

\* the calls that recorded a target for the first time since the reset
firstRecordings ==
    { i \in 1 .. Len(recorded) :
        \A j \in 1 .. i - 1 : identityOf(recorded[j]) # identityOf(recorded[i]) }

\* C19: after any calls since the last reset, targetsFound has exactly one entry per
\* distinct (name, x, y) recorded, and it is the disjoint union of trashTargetsFound,
\* the targets first recorded as IRON, and valuableTargetsFound, the targets first
\* recorded as another metal; a call recording a target already found changes none of
\* the three sets.
C19_EachTargetOnce ==
    /\ [] /\ targetsFound = { targetKey(recorded[i]) : i \in 1 .. Len(recorded) }
          /\ Cardinality(targetsFound) =
                Cardinality({ identityOf(recorded[i]) : i \in 1 .. Len(recorded) })
          /\ trashTargetsFound \cap valuableTargetsFound = {}
          /\ trashTargetsFound \cup valuableTargetsFound = targetsFound
          /\ trashTargetsFound =
                { targetKey(recorded[i]) :
                    i \in { k \in firstRecordings : recorded[k].metalType = "IRON" } }
          /\ valuableTargetsFound =
                { targetKey(recorded[i]) :
                    i \in { k \in firstRecordings : recorded[k].metalType # "IRON" } }
    /\ [][ ( /\ Len(recorded') = Len(recorded) + 1
             /\ \E i \in 1 .. Len(recorded) :
                  identityOf(recorded[i]) = identityOf(recorded'[Len(recorded')]) )
           => UNCHANGED <<targetsFound, trashTargetsFound, valuableTargetsFound>> ]_vars

\* the first nail recorded, then a ring, then the object at the nail's place and under
\* its name recorded as copper: two targets found, one trash and one valuable
C19_Witness ==
    /\ Len(recorded) = 3
    /\ recorded[1] = [name |-> "Nail", x |-> 12, y |-> 3, metalType |-> "IRON"]
    /\ recorded[2].name = "Ring_1"
    /\ recorded[3] = [name |-> "Nail", x |-> 12, y |-> 3, metalType |-> "COPPER"]
    /\ targetsFound = {"Nail_12_3", "Ring_1_2_3"}
    /\ trashTargetsFound = {"Nail_12_3"}
    /\ valuableTargetsFound = {"Ring_1_2_3"}

\* C20: whenever a call of update raises the value of a cell, the tag of the cell
\* afterwards is the metal type passed to the call, null included.
C20_TagFollowsRaise ==
    [][ updateStep =>
          \A c \in Cells :
              grid'[c] > grid[c] => metalTypeGrid'[c] = lastOp'.metalType ]_vars

(***************************************************************************)
(* The signal analyzer fed with a signal that comes and goes: each sample  *)
(* is either a strong target or a reading at the noise floor.              *)
(***************************************************************************)
MaxPresence == 12

\* a strong silver target, and an iron reading of strength exactly 10 (not present)
PresenceSamples ==
    { [noSignal EXCEPT !.strength = 90 * SCALE, !.metalType = "SILVER", !.vdi = 90,
                       !.phase = 170, !.distance = 0],
      [noSignal EXCEPT !.strength = 10 * SCALE, !.metalType = "IRON", !.vdi = 12,
                       !.phase = 25, !.distance = 70] }

PresenceUpdate ==
    /\ Len(submitted) < MaxPresence
    /\ \E sample \in PresenceSamples : DoAnalyzerUpdate(sample)
    /\ UNCHANGED <<detectorVars, heatVars, coverageVars, restVars>>

PresenceReset ==
    /\ submitted # << >>
    /\ DoAnalyzerReset
    /\ UNCHANGED <<detectorVars, heatVars, coverageVars, restVars>>

NextPresence == PresenceUpdate \/ PresenceReset

SpecPresence == Init /\ [][NextPresence]_vars

\* the number of window entries with strength > 10
presentCount == Cardinality({ i \in 1 .. Len(signalHistory) :
                                signalHistory[i].strength > 10 * SCALE })

\* round(80 + |p - 0.5| * 40) for p = present/n outside [0.3, 0.7], else 40: the
\* rounded value is the largest r with r - 0.5 <= 80 + 20 * |2 * present - n| / n
repeatabilityOfRatio(present, n) ==
    IF 10 * present > 7 * n \/ 10 * present < 3 * n
    THEN CHOOSE r \in 80 .. 100 :
            /\ n * (2 * r - 1) <= 160 * n + 40 * Abs(2 * present - n)
            /\ \A q \in 80 .. 100 :
                 n * (2 * q - 1) <= 160 * n + 40 * Abs(2 * present - n) => q <= r
    ELSE 40

\* C21 as stated: on every update leaving at least 5 entries in the window,
\* repeatability is the function of the presence ratio, and it is never 0.
C21_RepeatabilityFromFive ==
    Len(signalHistory) >= 5 =>
        /\ returned # << >>
        /\ returned[1].repeatability =
              repeatabilityOfRatio(presentCount, Len(signalHistory))
        /\ returned[1].repeatability # 0

\* C21, amended: on every update leaving at least 10 entries in the window,
\* repeatability is the function of the presence ratio (80..100 outside [0.3, 0.7],
\* else 40); with 5 to 9 entries it is 0.
C21_RepeatabilityFromTen ==
    /\ Len(signalHistory) >= 10 =>
         /\ returned # << >>
         /\ returned[1].repeatability =
               repeatabilityOfRatio(presentCount, Len(signalHistory))
         /\ returned[1].repeatability \in {40} \cup 80 .. 100
    /\ Len(signalHistory) \in 5 .. 9 =>
         /\ returned # << >>
         /\ returned[1].repeatability = 0

\* ten entries, eight of them present: 80 + 0.3 * 40
C21_Witness ==
    /\ Len(signalHistory) = 10
    /\ presentCount = 8
    /\ returned # << >>
    /\ returned[1].repeatability = 92

\* the mean of the vdi of the entries of a window, rounded to the nearest integer
\* (every entry carries a number as vdi, 0 when there was no signal)
roundedMeanVdi(h) ==
    CHOOSE r \in 0 .. MAX_VDI :
        /\ Len(h) * (2 * r - 1) <= 2 * SumOf(h, "vdi")
        /\ 2 * SumOf(h, "vdi") < Len(h) * (2 * r + 1)

\* C22 as stated: after every update that leaves the target locked, the locked VDI is
\* the rounded mean of the vdi of the entries now in the window.
C22_LockedVdiIsWindowMean ==
    (targetLocked /\ signalHistory # << >>) =>
        lastTargetVDI = <<roundedMeanVdi(signalHistory)>>

\* C22, amended: the locked VDI is the rounded mean of the vdi of the window entries
\* of the update that acquired the lock; an update that keeps the lock leaves the
\* locked VDI as it was, whatever entered or left the window.
C22_LockedVdiSetOnAcquire ==
    [][ /\ (~targetLocked /\ targetLocked') =>
            lastTargetVDI' = <<roundedMeanVdi(signalHistory')>>
        /\ (targetLocked /\ targetLocked') => lastTargetVDI' = lastTargetVDI ]_vars

\* five strong samples of VDI 90 acquired the lock, a sixth, faint sample of VDI 12
\* kept it: the locked VDI is still 90 while the mean of the window is 77
C22_Witness ==
    /\ Len(signalHistory) = 6
    /\ \A i \in 1 .. 5 : signalHistory[i].vdi = 90
    /\ signalHistory[6].vdi = 12
    /\ targetLocked
    /\ lastTargetVDI = <<90>>
    /\ roundedMeanVdi(signalHistory) = 77

\* C23: whenever at least one object with base strength in 0..100 lies strictly
\* within the detection range of the query point, getSignal selects a candidate:
\* closestObject is not null, distance is finite and metalType is not null.
C23_InRangeObjectSelected ==
    (query # << >> /\ \E i \in inRange : objects[i].strength \in 0 .. 100) =>
        /\ signal.closestObject # << >>
        /\ signal.distance # Infinity
        /\ signal.metalType # Null

\* C24: when getSignal returns an object, the distance and the object of the signal
\* are those of the nearest object within detection range: the distance is the minimum
\* distance from the query point over the in-range objects and the object is an
\* in-range object at that distance.
C24_DistanceIsNearest ==
    (query # << >> /\ signal.closestObject # << >>) =>
        /\ \A i \in inRange : signal.distance <= queryDistance(i)
        /\ \E i \in inRange :
             /\ objects[i] = signal.closestObject[1]
             /\ queryDistance(i) = signal.distance

\* the centre of cell c is at Euclidean distance <= radius from (x, y); the centre is
\* ((i + 0.5) * 10, (j + 0.5) * 10), that is (10 * i + 5, 10 * j + 5)
centreWithin(c, x, y, radius) ==
    (10 * c[1] + 5 - x) * (10 * c[1] + 5 - x) + (10 * c[2] + 5 - y) * (10 * c[2] + 5 - y)
        <= radius * radius

\* C25: a call update(x, y, radius) sets to the current timestamp exactly the in-grid
\* cells whose centre is at distance <= radius from (x, y), overwriting any older
\* timestamp, and leaves every other cell unchanged; the grid never gets an index
\* outside 0..cols-1 x 0..rows-1.
C25_ExactlyTheDisc ==
    /\ [](DOMAIN coverageGrid = (0 .. GRID_COLS - 1) \X (0 .. GRID_ROWS - 1))
    /\ [][ (coverageCall' # coverageCall /\ coverageCall' # noCoverageCall) =>
             \A c \in (0 .. GRID_COLS - 1) \X (0 .. GRID_ROWS - 1) :
                 coverageGrid'[c] =
                    IF centreWithin(c, coverageCall'.x, coverageCall'.y,
                                    coverageCall'.radius)
                    THEN coverageCall'.time
                    ELSE coverageGrid[c] ]_vars

\* a call in the top left corner at time 2, its disc reaching past the canvas: the
\* corner cell, marked at time 1 before, now holds 2, the cell at (1, 1), outside the
\* disc, still holds 1, and the far corner cell was never marked
C25_Witness ==
    /\ coverageCall = [x |-> 0, y |-> 0, radius |-> 20, time |-> 2]
    /\ coverageGrid[<<0, 0>>] = 2
    /\ coverageGrid[<<1, 0>>] = 2
    /\ coverageGrid[<<1, 1>>] = 1
    /\ coverageGrid[<<GRID_COLS - 1, GRID_ROWS - 1>>] = 0

\* the step is a frame, and the frame updated the analyzer (the pointer was over the
\* canvas)
frameStep == sessionOp' = "frame" /\ frames' = frames + 1

\* C26: in every frame the signal is queried at the pointer position from the object
\* list alone; when the frame updates the structures, the coverage update, the
\* heat-map update, the analyzer update and the technique update take the position and
\* the sample of that query; the heat map the frame leaves behind (the one rendered) is
\* the decayed result of the update, and a frame with the pointer off the canvas only
\* decays.
C26_FrameUsesItsOwnSample ==
    [][ frameStep =>
          LET x == query'[1]
              y == query'[2]
          IN  /\ \E draw \in SessionDraws :
                   signal' = getSignal(objects, x, y, draw[1], draw[2])
              /\ IF Len(submitted') = Len(submitted) + 1
                 THEN /\ submitted'[Len(submitted')] = entryOf(signal', now)
                      /\ signalHistory'[Len(signalHistory')] = entryOf(signal', now)
                      /\ coverageCall' = [x |-> x, y |-> y, radius |-> DETECTOR_RADIUS,
                                          time |-> now]
                      /\ coverageGrid' = coverageUpdate(coverageGrid, x, y,
                                                        DETECTOR_RADIUS, now)
                      /\ \E painted \in {heatUpdate(grid, metalTypeGrid, x, y,
                                                     signal'.strength,
                                                     signal'.metalType)} :
                           /\ grid' = heatDecay(painted[1], enableDecay)
                           /\ metalTypeGrid' = painted[2]
                      /\ positionHistory'[Len(positionHistory')].x = x
                      /\ positionHistory'[Len(positionHistory')].y = y
                 ELSE /\ submitted' = submitted
                      /\ coverageGrid' = coverageGrid
                      /\ grid' = heatDecay(grid, enableDecay)
                      /\ metalTypeGrid' = metalTypeGrid ]_vars

\* a frame over the buried pipe with decay on: the sample of strength 90 went to the
\* analyzer and to the heat map, whose centre cell was painted 90 and then decayed
C26_Witness ==
    /\ sessionOp = "frame"
    /\ enableDecay
    /\ query = <<45, 35>>
    /\ signal.strength = 90 * SCALE
    /\ submitted # << >>
    /\ submitted[Len(submitted)].strength = 90 * SCALE
    /\ coverageCall.x = 45
    /\ grid[<<4, 3>>] = decayCell(90 * SCALE)
    /\ grid[<<4, 3>>] < 90 * SCALE

(***************************************************************************)
(* The coverage layer ageing: updates, render calls, heat-map decay calls  *)
(* and reset while the clock runs past the fade window.  One unit of the   *)
(* clock is half the fade window.                                          *)
(***************************************************************************)
MaxAge == 4

coverageOpacity == 40

fadeTime == 5000

\* milliseconds per unit of the clock
TICK_MS == fadeTime \div 2

\* the opacity render() gives a cell last searched at lastSearchTime, times fadeTime:
\* coverageOpacity * max(0, 1 - timeSinceSearch / fadeTime)
opacityOf(lastSearchTime, currentTime) ==
    LET timeSinceSearch == (currentTime - lastSearchTime) * TICK_MS
    IN  coverageOpacity * Max(0, fadeTime - timeSinceSearch)

\* the cells render() draws at currentTime
drawnCells(cg, currentTime) ==
    { c \in Cells : cg[c] > 0 /\ opacityOf(cg[c], currentTime) > 0 }

\* a render() that forgets the cells it no longer draws
CoverageRender_expire ==
    /\ coverageGrid' = [c \in Cells |->
                          IF c \in drawnCells(coverageGrid, now) THEN coverageGrid[c]
                          ELSE 0]
    /\ probe' = [fn |-> "render", args |-> <<now>>, text |-> "",
                 number |-> Cardinality(drawnCells(coverageGrid, now))]
    /\ UNCHANGED <<now, coverageOp, coverageCall, detectorVars, heatVars, analyzerVars,
                   techniqueVars, scoringVars, sessionVars, audioVars>>

\* coverageRenderer.render(p5): draws, and writes nothing; the number of cells drawn is
\* kept in probe
CoverageRender ==
    /\ probe' = [fn |-> "render", args |-> <<now>>, text |-> "",
                 number |-> Cardinality(drawnCells(coverageGrid, now))]
    /\ UNCHANGED <<coverageVars, detectorVars, heatVars, analyzerVars,
                   techniqueVars, scoringVars, sessionVars, audioVars>>

\* pointer positions: the top left corner and the bottom right one
AgePoints == { <<0, 0>>, <<CANVAS_WIDTH, CANVAS_HEIGHT>> }

AgeUpdate ==
    /\ \E pt \in AgePoints :
         /\ coverageGrid' = coverageUpdate(coverageGrid, pt[1], pt[2], 20, now)
         /\ coverageCall' = [x |-> pt[1], y |-> pt[2], radius |-> 20, time |-> now]
    /\ coverageOp' = "update"
    /\ UNCHANGED <<now, detectorVars, heatVars, analyzerVars, restVars>>

\* time passes
AgeTick ==
    /\ now < MaxAge
    /\ now' = now + 1
    /\ UNCHANGED <<coverageGrid, coverageOp, coverageCall, detectorVars, heatVars,
                   analyzerVars, restVars>>

NextAge == AgeUpdate \/ CoverageRender \/ AgeTick \/ HeatDecay \/ CoverageReset

SpecAge == Init /\ [][NextAge]_vars

\* C27: between two resets a cell once marked stays marked whatever time passes and
\* whatever is rendered: getCoveragePercentage does not decrease and isSearched stays
\* true; only update and reset write the coverage grid (render and the heat map's
\* decay do not), and the fade shows in the cells drawn alone.
C27_CoverageNeverFades ==
    /\ [][ (coverageOp' # "reset" \/ coverageOp = "reset") =>
             /\ \A c \in Cells : coverageGrid[c] > 0 => coverageGrid'[c] > 0
             /\ getCoveragePercentage(coverageGrid') >= getCoveragePercentage(coverageGrid)
             /\ \A pt \in AgePoints :
                  isSearched(coverageGrid, pt[1], pt[2]) =>
                      isSearched(coverageGrid', pt[1], pt[2]) ]_vars
    /\ [][ coverageGrid' # coverageGrid =>
             \/ coverageOp' = "reset"
             \/ (coverageOp' = "update" /\ coverageCall'.time = now) ]_vars
    /\ [][ (probe' # probe \/ decayStep) => coverageGrid' = coverageGrid ]_vars

\* the corner cell marked at time 1 and rendered three units (7500 ms) later: no cell
\* is drawn any more, yet the cell is still searched and still counted
C27_Witness ==
    /\ probe.fn = "render"
    /\ probe.args = <<4>>
    /\ probe.number = 0
    /\ coverageGrid[<<0, 0>>] = 1
    /\ isSearched(coverageGrid, 0, 0)
    /\ getCoveragePercentage(coverageGrid) > 0

(***************************************************************************)
(* AudioEngine: beeps.  update() is called from the frames; the 'ended'    *)
(* event of an oscillator is dispatched by the browser at some later time, *)
(* after its scheduled stop or after stop() was called on it, and runs the *)
(* onended callback playBeep installed.  Beeps are numbered in the order   *)
(* they start; the clock of the audio context is left out, so whether the  *)
(* beep interval has passed is an input of update().  The mode is 'beep'.  *)
(***************************************************************************)
MaxBeeps == 5

\* stopCurrentBeep: <<currentOscillator, currentGain, beepInProgress, disconnected>>
\* after the call
stopCurrentBeep(osc, gain, inProgress, gone) ==
    IF osc # << >> /\ inProgress
    THEN << << >>, << >>, FALSE, gone \cup {osc[1]} >>
    ELSE <<osc, gain, inProgress, gone>>

\* the onended callback: it clears whatever currentOscillator and currentGain hold
\* when it runs
onended(osc, gain, gone) ==
    << << >>, << >>, FALSE, IF osc # << >> THEN gone \cup {osc[1]} ELSE gone >>

\* audioEngine.enable()
AudioEnable ==
    /\ audioEnabled' = TRUE
    /\ UNCHANGED <<currentOscillator, currentGain, beepInProgress, pendingEnded,
                   disconnected, beepCount, toneSystem>>
    /\ UNCHANGED <<detectorVars, heatVars, coverageVars, analyzerVars, techniqueVars,
                   scoringVars, sessionVars, probe>>

\* audioEngine.disable()
AudioDisable ==
    /\ audioEnabled' = FALSE
    /\ \E after \in {stopCurrentBeep(currentOscillator, currentGain, beepInProgress,
                                      disconnected)} :
         /\ currentOscillator' = after[1]
         /\ currentGain' = after[2]
         /\ beepInProgress' = after[3]
         /\ disconnected' = after[4]
    /\ UNCHANGED <<pendingEnded, beepCount, toneSystem>>
    /\ UNCHANGED <<detectorVars, heatVars, coverageVars, analyzerVars, techniqueVars,
                   scoringVars, sessionVars, probe>>

\* the strengths update() is called with (in units of 1/SCALE), and whether the beep
\* interval has passed since the last beep
BeepStrengths == {5 * SCALE, 50 * SCALE}

\* audioEngine.update(vdi, signalStrength): triggerBeep when enabled, the signal is
\* above 5 and the interval has passed; triggerBeep is stopCurrentBeep, then playBeep
AudioUpdate ==
    /\ beepCount < MaxBeeps
    /\ \E signalStrength \in BeepStrengths, intervalPassed \in BOOLEAN :
         IF audioEnabled /\ signalStrength > 5 * SCALE /\ intervalPassed
         THEN /\ currentOscillator' = <<beepCount + 1>>
              /\ currentGain' = <<beepCount + 1>>
              /\ beepInProgress' = TRUE
              /\ disconnected' = stopCurrentBeep(currentOscillator, currentGain,
                                                 beepInProgress, disconnected)[4]
              /\ pendingEnded' = pendingEnded \cup {beepCount + 1}
              /\ beepCount' = beepCount + 1
         ELSE UNCHANGED <<currentOscillator, currentGain, beepInProgress, disconnected,
                          pendingEnded, beepCount>>
    /\ UNCHANGED <<audioEnabled, toneSystem>>
    /\ UNCHANGED <<detectorVars, heatVars, coverageVars, analyzerVars, techniqueVars,
                   scoringVars, sessionVars, probe>>

\* the 'ended' event of one oscillator is dispatched and its onended callback runs
OscillatorEnded ==
    /\ \E beep \in pendingEnded :
         /\ pendingEnded' = pendingEnded \ {beep}
         /\ \E after \in {onended(currentOscillator, currentGain, disconnected)} :
              /\ currentOscillator' = after[1]
              /\ currentGain' = after[2]
              /\ beepInProgress' = after[3]
              /\ disconnected' = after[4]
    /\ UNCHANGED <<audioEnabled, beepCount, toneSystem>>
    /\ UNCHANGED <<detectorVars, heatVars, coverageVars, analyzerVars, techniqueVars,
                   scoringVars, sessionVars, probe>>

NextBeep == AudioEnable \/ AudioDisable \/ AudioUpdate \/ OscillatorEnded

SpecBeep == Init /\ [][NextBeep]_vars

\* C28: the 'ended' callback of one beep only cleans up that beep: when the event of a
\* beep other than the current one is dispatched, currentOscillator, currentGain and
\* beepInProgress stay as they are and the current beep is not disconnected.
C28_EndedCleansOwnBeep ==
    [][ \A beep \in pendingEnded \ pendingEnded' :
            (currentOscillator # << >> /\ currentOscillator # <<beep>>) =>
                /\ currentOscillator' = currentOscillator
                /\ currentGain' = currentGain
                /\ beepInProgress' = beepInProgress
                /\ currentOscillator[1] \notin disconnected' ]_vars

\* C29: while the window holds 5 to 9 entries repeatability is 0, hence confidence is
\* at most 70 whatever the samples are, and the reported quality is one of GOOD, FAIR,
\* POOR, JUNK: EXCELLENT is unreachable below 10 entries.
C29_NoExcellentBelowTen ==
    (Len(signalHistory) \in 5 .. 9 /\ returned # << >>) =>
        /\ returned[1].repeatability = 0
        /\ returned[1].confidence <= 70
        /\ returned[1].quality \in {"GOOD", "FAIR", "POOR", "JUNK"}
        /\ currentAnalysis.quality # "EXCELLENT"

\* nine strong, steady readings: stability 100 and a full strength weight give
\* confidence 70 and quality GOOD, and the tenth makes it EXCELLENT
C29_Witness ==
    /\ Len(signalHistory) = 9
    /\ presentCount = 9
    /\ returned # << >>
    /\ returned[1].stability = 100
    /\ returned[1].confidence = 70
    /\ returned[1].quality = "GOOD"

(***************************************************************************)
(* The epsilon of decay(): a few updates with strengths over [0, 100],     *)
(* decay() called any number of times before, between and after them.      *)
(***************************************************************************)
MaxSnapUpdates == 2

\* strengths, in units of 1/SCALE: 0, 30 (spread radius 3), 35 (radius 4), 100
SnapStrengths == { 0, 30 * SCALE, 35 * SCALE, 100 * SCALE }

\* the pointer position of the updates: an inner cell
SnapPoints == { <<45, 35>> }

SnapUpdate ==
    /\ heatOps < MaxSnapUpdates
    /\ \E pt \in SnapPoints, strength \in SnapStrengths :
         DoHeatUpdate(pt[1], pt[2], strength, "IRON")
    /\ heatOps' = heatOps + 1
    /\ UNCHANGED <<detectorVars, coverageVars, analyzerVars, restVars>>

NextSnap == SnapUpdate \/ FadeDecay \/ FadeClear \/ FadeToggle

SpecSnap == Init /\ [][NextSnap]_vars

\* C30: with decay enabled, after any sequence of update() and decay() calls with
\* strengths in [0, 100], every cell holds exactly 0 or a value in [0.5, 100], and no
\* cell exceeds the largest strength supplied since the last clear().
C30_ZeroOrAboveEpsilon ==
    enableDecay =>
        \A c \in Cells :
            /\ grid[c] = 0 \/ (2 * grid[c] >= SCALE /\ grid[c] <= 100 * SCALE)
            /\ grid[c] <= supplied

\* after two updates, the largest with 100, and decay() calls, a cell that was painted
\* has been snapped to zero while another still holds a value
C30_Witness ==
    /\ enableDecay
    /\ lastOp.op = "decay"
    /\ heatOps = 2
    /\ supplied = 100 * SCALE
    /\ \E c \in Cells : peak[c] > 0 /\ grid[c] = 0
    /\ \E c \in Cells : grid[c] > 0 /\ grid[c] < SCALE

====
